---- MODULE Spec2Model ----
(***************************************************************************)
(* Canvas slideshow of src/app/layout.tsx (BrutalistSlideshow): image      *)
(* preloading, the scheduler interval, the transition runner              *)
(* (runTransition / animate), the resize handler and React's deferred      *)
(* state updates.                                                          *)
(*                                                                         *)
(* React state set from a timer, an animation-frame callback or an image   *)
(* onload handler is queued and applied by a later re-render (variable     *)
(* `pending`, action Render); refs are written synchronously.  A re-render *)
(* with its commit and the effects whose dependencies changed is one step. *)
(* Indices are zero-based as in the source.                                *)
(***************************************************************************)
EXTENDS Integers, FiniteSets, Sequences, TLC

\* ------------------------------------------------------------------ bounds
MaxImages == 3
ClockStep == 1500
MaxCallbacks == 2
ProgressSteps == 6
MaxCells == 6
\* The grid of the reveal, scaled down (GRID_COLS = 16 and GRID_ROWS = 12 in
\* the source).
GridCols == 4
GridRows == 3
\* The number of brightness values a sampled cell can have.
Shades == 3
\* The largest width or height of an image or of a target.
MaxDim == 5
\* The largest number of PNG files in the input directory.
MaxFiles == 3
\* The number of images the generator aims at, scaled down (NUM_IMAGES = 123
\* in the source), and the largest count it is invoked with.
TargetImages == 4
MaxCount == 2
\* Largest array whose shuffles are enumerated.
MaxItems == 4
\* Largest number of tasks submitted to a limiter.
MaxTasks == 4
\* Number of consecutive runs of the image generator.
MaxRuns == 2

\* --------------------------------------------------------------- constants
TRANSITION_MS == 3000
TRANSITIONS == {"mosaic", "gridReveal", "container"}
Viewports == {[width |-> 4, height |-> 3], [width |-> 3, height |-> 4]}
FrameLag == ClockStep
MaxClock == TRANSITION_MS + ClockStep
NullHandle == 0
NoIndex == 0 - 1
\* No frame of the transition has been rendered yet.
NoProgress == 0 - (MaxClock + 1)

VARIABLES
  images,             \* manifest.images: index -> URL
  imgState,           \* per index: the browser's load request
  loaded,             \* preload effect: local Map `loaded` (its keys)
  loadCount,          \* preload effect: local loadCount
  loadedImages,       \* React state (keys of the Map)
  currentIndex,       \* React state
  isTransitioning,    \* React state
  pending,            \* queued React state updates, applied by Render
  isTransitioningRef, \* ref
  animationRef,       \* ref: handle of the last requested frame, or null
  currentIndexRef,    \* ref, assigned during render
  viewport,           \* window.innerWidth / innerHeight
  canvas,             \* canvas.width / canvas.height
  surface,            \* what the canvas bitmap shows
  intervalActive,     \* the scheduler's setInterval is registered
  resizeListener,     \* handleResize is registered on window
  mounted,            \* the component is mounted
  rafQueue,           \* callbacks registered with requestAnimationFrame
  clock,              \* performance.now(), from a moving origin
  lastOp,             \* the step that was taken last
  calc                \* the evaluation of a function taken on its own

vars == <<images, imgState, loaded, loadCount, loadedImages, currentIndex,
          isTransitioning, pending, isTransitioningRef, animationRef,
          currentIndexRef, viewport, canvas, surface, intervalActive,
          resizeListener, mounted, rafQueue, clock, lastOp, calc>>

\* ----------------------------------------------------------------- helpers
NumImages == Cardinality(DOMAIN images)

Indices == DOMAIN images

NoPending ==
  [hasLoaded |-> FALSE, loaded |-> {}, hasIndex |-> FALSE, index |-> NoIndex,
   hasTrans |-> FALSE, trans |-> FALSE]

NoCanvas == [width |-> 0, height |-> 0]

Blank ==
  [kind |-> "blank", from |-> NoIndex, to |-> NoIndex, transition |-> "none",
   progress |-> 0, width |-> 0, height |-> 0, state |-> NoCanvas]

\* The step taken last; prev is the progress of the preceding frame of the
\* same transition when the step is a frame callback.
Op(name, f, t, d) ==
  [op |-> name, from |-> f, to |-> t, done |-> d, prev |-> NoProgress]

\* No function is being evaluated on its own: the component is running.
NoCalc == [fn |-> "none"]

\* The time origin of performance.now() is arbitrary and timestamps are only
\* ever subtracted from one another: with no callback pending no timestamp is
\* held, and the origin is moved to the present.
Rebase(q, c) == IF q = {} THEN 0 ELSE c

\* requestAnimationFrame returns a handle no pending callback has.
FreshHandle(used) ==
  CHOOSE h \in 1..(Cardinality(used) + 1) : h \notin used

Handles(q) == {cb.handle : cb \in q}

\* Mutant of Progress: the clamp stops short of 1.
ProgressBelowOne(elapsed) ==
  IF elapsed < TRANSITION_MS THEN elapsed ELSE TRANSITION_MS - 1

\* Mutant of Progress: past the duration the progress starts over.
ProgressWrapping(elapsed) ==
  IF elapsed < TRANSITION_MS THEN elapsed ELSE elapsed - TRANSITION_MS

\* Math.min(elapsed / TRANSITION_MS, 1), as the numerator over TRANSITION_MS.
Progress(elapsed) == IF elapsed < TRANSITION_MS THEN elapsed ELSE TRANSITION_MS

\* setState on an unmounted component is dropped.
SetLoadedImages(p, m) ==
  IF mounted THEN [p EXCEPT !.hasLoaded = TRUE, !.loaded = m] ELSE p

SetCurrentIndex(p, i) ==
  IF mounted THEN [p EXCEPT !.hasIndex = TRUE, !.index = i] ELSE p

SetIsTransitioning(p, b) ==
  IF mounted THEN [p EXCEPT !.hasTrans = TRUE, !.trans = b] ELSE p

\* The value of the currentIndex state with the queued update applied.
PlaybackPosition == IF pending.hasIndex THEN pending.index ELSE currentIndex

HasPending == pending.hasLoaded \/ pending.hasIndex \/ pending.hasTrans

\* drawStaticImage(imageIndex) with the given loadedImages, on canvas c.
\* Mutant of DrawStaticImage: the first image of the manifest is drawn.
DrawStaticImageFirst(surf, c, lim, idx) ==
  IF c = NoCanvas THEN surf
  ELSE IF idx \notin Indices THEN surf
  ELSE IF images[idx] \notin lim THEN surf
  ELSE [kind |-> "static", from |-> NoIndex, to |-> 0, transition |-> "none",
        progress |-> 0, width |-> c.width, height |-> c.height,
        state |-> NoCanvas]

DrawStaticImage(surf, c, lim, idx) ==
  IF c = NoCanvas THEN surf
  ELSE IF idx \notin Indices THEN surf
  ELSE IF images[idx] \notin lim THEN surf
  ELSE [kind |-> "static", from |-> NoIndex, to |-> idx, transition |-> "none",
        progress |-> 0, width |-> c.width, height |-> c.height,
        state |-> NoCanvas]

\* handleResize with the closure values (isTransitioning, loadedImages,
\* currentIndex) of the render that registered it.  Assigning canvas.width
\* clears the bitmap.
HandleResize(vp, trans, lim, idx) ==
  IF ~trans /\ lim # {} THEN DrawStaticImage(Blank, vp, lim, idx) ELSE Blank

\* Mutant of View: the empty-manifest branch is missing.
ViewNoEmptyBranch ==
  IF ~mounted THEN "unmounted"
  ELSE IF loadedImages = {} THEN "loading"
  ELSE "slideshow"

\* What the component's render returns.
View ==
  IF ~mounted THEN "unmounted"
  ELSE IF NumImages = 0 THEN "noImages"
  ELSE IF loadedImages = {} THEN "loading"
  ELSE "slideshow"

\* -------------------------------------------------------------------- Init
Init ==
  /\ \E n \in 0..MaxImages : images = [i \in 0..(n - 1) |-> i + 1]
  /\ imgState = [i \in DOMAIN images |-> "pending"]
  /\ loaded = {}
  /\ loadCount = 0
  /\ loadedImages = {}
  /\ currentIndex \in (IF DOMAIN images = {} THEN {0} ELSE DOMAIN images)
  /\ isTransitioning = FALSE
  /\ pending = NoPending
  /\ isTransitioningRef = FALSE
  /\ animationRef = NullHandle
  /\ currentIndexRef = currentIndex
  /\ viewport \in Viewports
  /\ canvas = IF DOMAIN images = {} THEN NoCanvas ELSE viewport
  /\ surface = Blank
  /\ intervalActive = FALSE
  /\ resizeListener = (DOMAIN images # {})
  /\ mounted = TRUE
  /\ rafQueue = {}
  /\ clock = 0
  /\ lastOp = Op("mount", NoIndex, NoIndex, FALSE)
  /\ calc = NoCalc

\* ------------------------------------------------------------ image loads
\* img.onload of the preload effect.
ImageLoad(i) ==
  /\ imgState[i] = "pending"
  /\ imgState' = [imgState EXCEPT ![i] = "loaded"]
  /\ loaded' = loaded \cup {images[i]}
  /\ loadCount' = loadCount + 1
  /\ pending' = IF loadCount' = NumImages
                THEN SetLoadedImages(pending, loaded')
                ELSE pending
  /\ lastOp' = Op("load", NoIndex, i, loadCount' = NumImages)
  /\ UNCHANGED <<calc, images, loadedImages, currentIndex, isTransitioning,
                 isTransitioningRef, animationRef, currentIndexRef, viewport,
                 canvas, surface, intervalActive, resizeListener, mounted,
                 rafQueue, clock>>

\* The load request fails; the preload effect registers no onerror handler.
ImageError(i) ==
  /\ imgState[i] = "pending"
  /\ imgState' = [imgState EXCEPT ![i] = "failed"]
  /\ lastOp' = Op("error", NoIndex, i, FALSE)
  /\ UNCHANGED <<calc, images, loaded, loadCount, loadedImages, currentIndex,
                 isTransitioning, pending, isTransitioningRef, animationRef,
                 currentIndexRef, viewport, canvas, surface, intervalActive,
                 resizeListener, mounted, rafQueue, clock>>

\* ------------------------------------------------------- transition runner
\* The frame callback `animate` of one runTransition call, as registered with
\* requestAnimationFrame: its closure (fromIndex, toIndex, transition, state,
\* startTime), the handle returned, whether it was registered by
\* runTransition (first) or by a frame of the same transition, and the
\* progress that frame rendered (last).
Callback(h, f, t, tr, st, start, first) ==
  [handle |-> h, from |-> f, to |-> t, transition |-> tr, state |-> st,
   startTime |-> start, first |-> first, last |-> NoProgress]

\* The Transition Instance a callback belongs to.
Instance(cb) ==
  [from |-> cb.from, to |-> cb.to, transition |-> cb.transition,
   state |-> cb.state, startTime |-> cb.startTime]

Instances == {Instance(cb) : cb \in rafQueue}

\* transition.init(ctx, fromImg, toImg, canvas.width, canvas.height): the part
\* of the state that depends on the surface (gridReveal's cellWidth and
\* cellHeight, container's origin cell) is fixed at the size init saw.
TransitionInit(tr, c) == [width |-> c.width, height |-> c.height]

\* Mutant of StartUpdates: the position is committed when the transition
\* starts.
StartUpdatesCommitting(p, toIndex) ==
  SetCurrentIndex(SetIsTransitioning(p, TRUE), toIndex)

\* The state updates runTransition queues when it starts.
StartUpdates(p, toIndex) == SetIsTransitioning(p, TRUE)

\* Mutant of CanStart: the image handles are not tested.
CanStartUntested(fromIndex, toIndex) ==
  /\ canvas # NoCanvas
  /\ fromIndex \in Indices
  /\ toIndex \in Indices

\* runTransition's early returns: no canvas, or an image handle missing.
CanStart(fromIndex, toIndex) ==
  /\ canvas # NoCanvas
  /\ fromIndex \in Indices
  /\ toIndex \in Indices
  /\ images[fromIndex] \in loadedImages
  /\ images[toIndex] \in loadedImages

\* runTransition(fromIndex, toIndex) with the random draw tr.
RunTransition(fromIndex, toIndex, tr) ==
  IF CanStart(fromIndex, toIndex)
  THEN LET h == FreshHandle(Handles(rafQueue) \cup {animationRef})
       IN /\ pending' = StartUpdates(pending, toIndex)
          /\ isTransitioningRef' = TRUE
          /\ rafQueue' = rafQueue \cup
               {Callback(h, fromIndex, toIndex, tr, TransitionInit(tr, canvas),
                         clock, TRUE)}
          /\ animationRef' = h
          /\ clock' = clock
  ELSE UNCHANGED <<pending, isTransitioningRef, rafQueue, animationRef, clock>>

\* transition.render(...) at the current canvas size.
RenderFrame(cb, progress) ==
  [kind |-> "frame", from |-> cb.from, to |-> cb.to,
   transition |-> cb.transition, progress |-> progress,
   width |-> canvas.width, height |-> canvas.height, state |-> cb.state]

\* Mutant of Commit: the position is set to the transition's source.
CommitFrom(p, cb) == SetIsTransitioning(SetCurrentIndex(p, cb.from), FALSE)

\* The state updates of the completion branch of animate.
Commit(p, cb) == SetIsTransitioning(SetCurrentIndex(p, cb.to), FALSE)

\* The timestamps the browser may pass to a frame callback: the begin time of
\* the frame.  A callback registered from a timer task can run in a frame
\* that had already begun, by at most FrameLag, when it was registered.
FrameTimes(cb) == IF cb.first THEN {clock - FrameLag, clock} ELSE {clock}

\* Mutant of NextFrame: animate does not request another frame.
NextFrameDropped(cb, h, progress) == {}

\* requestAnimationFrame(animate) in animate: the callback is registered
\* again, under the handle h.
NextFrame(cb, h, progress) ==
  {[cb EXCEPT !.handle = h, !.first = FALSE, !.last = progress]}

\* One call of animate(now) by the browser.
Animate(cb, now) ==
  /\ cb \in rafQueue
  /\ now \in FrameTimes(cb)
  /\ LET elapsed == now - cb.startTime
         progress == Progress(elapsed)
         rest == rafQueue \ {cb}
     IN /\ surface' = RenderFrame(cb, progress)
        /\ IF progress < TRANSITION_MS
           THEN LET h == FreshHandle(Handles(rafQueue) \cup {animationRef})
                IN /\ rafQueue' = rest \cup NextFrame(cb, h, progress)
                   /\ animationRef' = h
                   /\ clock' = clock
                   /\ UNCHANGED <<pending, isTransitioningRef>>
           ELSE /\ pending' = Commit(pending, cb)
                /\ isTransitioningRef' = FALSE
                /\ animationRef' = NullHandle
                /\ rafQueue' = rest
                /\ clock' = Rebase(rest, clock)
        /\ lastOp' = [Op("frame", cb.from, cb.to, progress >= TRANSITION_MS)
                        EXCEPT !.prev = cb.last]
  /\ UNCHANGED <<calc, images, imgState, loaded, loadCount, loadedImages,
                 currentIndex, isTransitioning, currentIndexRef, viewport,
                 canvas, intervalActive, resizeListener, mounted>>

\* Time passes while a callback holds a timestamp.
AdvanceTime ==
  /\ rafQueue # {}
  /\ clock + ClockStep <= MaxClock
  /\ clock' = clock + ClockStep
  /\ lastOp' = Op("time", NoIndex, NoIndex, FALSE)
  /\ UNCHANGED <<calc, images, imgState, loaded, loadCount, loadedImages,
                 currentIndex, isTransitioning, pending, isTransitioningRef,
                 animationRef, currentIndexRef, viewport, canvas, surface,
                 intervalActive, resizeListener, mounted, rafQueue>>

\* --------------------------------------------------------------- scheduler
\* Mutant of TickIdle: the interval callback does not test the flag.
TickIdleUntested == TRUE

\* Mutant of TickIdle: the interval callback tests the isTransitioning state
\* instead of the ref.
TickIdleFromState == ~isTransitioning

\* The interval callback's test `!isTransitioningRef.current`.
TickIdle == ~isTransitioningRef

\* The outcomes of the random draws of nextIndex for the current index curr.
NextIndexChoices(curr) ==
  IF NumImages > 1 THEN Indices \ {curr} ELSE Indices

\* One firing of the setInterval callback.
Tick ==
  /\ intervalActive
  /\ IF TickIdle
     THEN \E nextIndex \in NextIndexChoices(currentIndexRef), tr \in TRANSITIONS :
            /\ RunTransition(currentIndexRef, nextIndex, tr)
            /\ lastOp' = Op("tick", currentIndexRef, nextIndex,
                            CanStart(currentIndexRef, nextIndex))
     ELSE /\ lastOp' = Op("tick", NoIndex, NoIndex, FALSE)
          /\ UNCHANGED <<pending, isTransitioningRef, rafQueue, animationRef,
                         clock>>
  /\ UNCHANGED <<calc, images, imgState, loaded, loadCount, loadedImages,
                 currentIndex, isTransitioning, currentIndexRef, viewport,
                 canvas, surface, intervalActive, resizeListener, mounted>>

\* ------------------------------------------------------------------ resize
\* A resize event of the window.
Resize ==
  /\ \E vp \in Viewports \ {viewport} :
       /\ viewport' = vp
       /\ IF resizeListener
          THEN /\ canvas' = vp
               /\ surface' = HandleResize(vp, isTransitioning, loadedImages,
                                          currentIndex)
          ELSE UNCHANGED <<canvas, surface>>
  /\ lastOp' = Op("resize", NoIndex, NoIndex, resizeListener)
  /\ UNCHANGED <<calc, images, imgState, loaded, loadCount, loadedImages,
                 currentIndex, isTransitioning, pending, isTransitioningRef,
                 animationRef, currentIndexRef, intervalActive, resizeListener,
                 mounted, rafQueue, clock>>

\* ------------------------------------------------------------ React render
\* A re-render that applies the queued updates, with its commit and effects.
Render ==
  /\ mounted
  /\ HasPending
  /\ LET lim == IF pending.hasLoaded THEN pending.loaded ELSE loadedImages
         idx == IF pending.hasIndex THEN pending.index ELSE currentIndex
         trans == IF pending.hasTrans THEN pending.trans ELSE isTransitioning
         \* resize effect: deps [currentIndex, isTransitioning,
         \* drawStaticImage, loadedImages.size]
         resizeDeps == pending.hasLoaded \/ idx # currentIndex
                       \/ trans # isTransitioning
         afterResize == IF resizeDeps /\ canvas # NoCanvas
                        THEN HandleResize(viewport, trans, lim, idx)
                        ELSE surface
         canvasAfter == IF resizeDeps /\ canvas # NoCanvas
                        THEN viewport ELSE canvas
         \* initial-draw effect: same deps
         afterDraw == IF resizeDeps /\ lim # {} /\ ~trans
                      THEN DrawStaticImage(afterResize, canvasAfter, lim, idx)
                      ELSE afterResize
         \* scheduler effect: deps [images.length, loadedImages.size,
         \* runTransition]; runTransition changes with loadedImages
         schedDeps == pending.hasLoaded
         cancelled == IF schedDeps /\ intervalActive
                         /\ animationRef # NullHandle
                      THEN {cb \in rafQueue : cb.handle = animationRef}
                      ELSE {}
     IN /\ loadedImages' = lim
        /\ currentIndex' = idx
        /\ isTransitioning' = trans
        /\ currentIndexRef' = idx
        /\ canvas' = canvasAfter
        /\ surface' = afterDraw
        /\ resizeListener' = resizeListener
        /\ intervalActive' = IF schedDeps
                             THEN (NumImages # 0 /\ lim # {})
                             ELSE intervalActive
        /\ rafQueue' = rafQueue \ cancelled
        /\ clock' = Rebase(rafQueue \ cancelled, clock)
  /\ pending' = NoPending
  /\ lastOp' = Op("render", NoIndex, NoIndex, FALSE)
  /\ UNCHANGED <<calc, images, imgState, loaded, loadCount, isTransitioningRef,
                 animationRef, viewport, mounted>>

\* ---------------------------------------------------------------- teardown
\* Mutant of Teardown: the scheduler cleanup clears the interval and does not
\* cancel the requested frame.
TeardownKeepsFrame ==
  /\ mounted
  /\ mounted' = FALSE
  /\ resizeListener' = FALSE
  /\ intervalActive' = FALSE
  /\ lastOp' = Op("teardown", NoIndex, NoIndex, FALSE)
  /\ UNCHANGED <<calc, images, imgState, loaded, loadCount, loadedImages,
                 currentIndex, isTransitioning, pending, isTransitioningRef,
                 animationRef, currentIndexRef, viewport, canvas, surface,
                 rafQueue, clock>>

\* Unmount: the cleanup functions of the resize and scheduler effects.
Teardown ==
  /\ mounted
  /\ mounted' = FALSE
  /\ resizeListener' = FALSE
  /\ intervalActive' = FALSE
  /\ LET cancelled == IF intervalActive /\ animationRef # NullHandle
                      THEN {cb \in rafQueue : cb.handle = animationRef}
                      ELSE {}
     IN /\ rafQueue' = rafQueue \ cancelled
        /\ clock' = Rebase(rafQueue \ cancelled, clock)
  /\ lastOp' = Op("teardown", NoIndex, NoIndex, FALSE)
  /\ UNCHANGED <<calc, images, imgState, loaded, loadCount, loadedImages,
                 currentIndex, isTransitioning, pending, isTransitioningRef,
                 animationRef, currentIndexRef, viewport, canvas, surface>>

\* ----------------------------------------------------------- specification
Next ==
  \/ \E i \in Indices : ImageLoad(i)
  \/ \E i \in Indices : ImageError(i)
  \/ Tick
  \/ \E cb \in rafQueue : \E now \in FrameTimes(cb) : Animate(cb, now)
  \/ AdvanceTime
  \/ Resize
  \/ Render
  \/ Teardown

Spec == Init /\ [][Next]_vars

\* ------------------------------------------- the runner called directly
\* runTransition(fromIndex, toIndex) invoked with the scheduler's arguments by
\* a caller that makes no test of its own, next to the scheduler's interval,
\* at any moment while the component is mounted.
Start(fromIndex, toIndex) ==
  /\ mounted
  /\ Cardinality(rafQueue) < MaxCallbacks
  /\ \E tr \in TRANSITIONS : RunTransition(fromIndex, toIndex, tr)
  /\ lastOp' = Op("start", fromIndex, toIndex, CanStart(fromIndex, toIndex))
  /\ UNCHANGED <<calc, images, imgState, loaded, loadCount, loadedImages,
                 currentIndex, isTransitioning, currentIndexRef, viewport,
                 canvas, surface, intervalActive, resizeListener, mounted>>

NextStart ==
  \/ \E i \in Indices : ImageLoad(i)
  \/ \E t \in NextIndexChoices(currentIndexRef) : Start(currentIndexRef, t)
  \/ Tick
  \/ \E cb \in rafQueue : \E now \in FrameTimes(cb) : Animate(cb, now)
  \/ Render

SpecStart == Init /\ [][NextStart]_vars

\* Fairness: time passes, the browser runs registered frame callbacks and
\* due interval callbacks, and React performs the re-renders it scheduled.
LiveSpec ==
  /\ Spec
  /\ WF_vars(AdvanceTime)
  /\ WF_vars(\E cb \in rafQueue : \E now \in FrameTimes(cb) : Animate(cb, now))
  /\ WF_vars(Tick)
  /\ WF_vars(Render)

\* ------------------------------------------------------------- properties
Running == isTransitioningRef

AllSettled == \A i \in Indices : imgState[i] # "pending"

Succeeded == {images[i] : i \in {j \in Indices : imgState[j] = "loaded"}}

\* loadedImages with the queued update applied.
ReportedImages == IF pending.hasLoaded THEN pending.loaded ELSE loadedImages

Completed == lastOp.op = "frame" /\ lastOp.done

\* C1: at most one Transition Instance is in flight in every reachable state:
\* never more than one pending animation-frame callback, and so never more
\* than one (from, to, state, start timestamp).
C1_SingleFlight ==
  /\ Cardinality(rafQueue) <= 1
  /\ Cardinality(Instances) <= 1

\* An interval tick fired while a transition was in flight past its first
\* frame, and one callback is pending.
C1_Witness ==
  /\ lastOp.op = "tick"
  /\ ~lastOp.done
  /\ Cardinality(rafQueue) = 1
  /\ \A cb \in rafQueue : ~cb.first

C3_RunningReturnsToIdle == (Running /\ mounted) ~> (~Running \/ ~mounted)

\* A transition has run to completion on the mounted component.
C3_Witness ==
  /\ Completed
  /\ mounted
  /\ ~Running
  /\ surface.progress = TRANSITION_MS

\* C4 as stated: once every manifest URL has succeeded or failed, completion
\* has been reported and the reported set is the set of URLs that succeeded.
C4_LoadingCompletes ==
  (mounted /\ AllSettled) => ReportedImages = Succeeded

\* C5 as stated: with at least two entries of which at least two loaded (the
\* others may have failed), transitions keep completing for as long as the
\* component is mounted.
C5_NeverStalls ==
  []((AllSettled /\ Cardinality(Succeeded) >= 2)
       => <>(~mounted \/ Completed))

\* C6: the frame callback that computes progress = 1 renders that frame, sets
\* the Playback Position to the transition's toIndex, requests no further
\* frame and leaves the Runner Idle.
C6_CompletionCommits ==
  Completed =>
    /\ surface.kind = "frame"
    /\ surface.progress = TRANSITION_MS
    /\ surface.from = lastOp.from
    /\ surface.to = lastOp.to
    /\ PlaybackPosition = lastOp.to
    /\ rafQueue = {}
    /\ animationRef = NullHandle
    /\ ~Running

\* A transition between two different images has just completed.
C6_Witness ==
  /\ Completed
  /\ lastOp.from # lastOp.to
  /\ PlaybackPosition = lastOp.to

\* C7: the Playback Position changes only in the frame callback that completes
\* a transition; the re-render only commits the value that callback queued.
C7_PositionChangesOnlyOnCompletion ==
  [][/\ PlaybackPosition' # PlaybackPosition
          => (lastOp'.op = "frame" /\ lastOp'.done)
     /\ currentIndex' # currentIndex
          => (lastOp'.op = "render" /\ currentIndex' = PlaybackPosition)]_vars

\* A completion has changed the position and the re-render is still to come.
C7_Witness ==
  /\ Completed
  /\ PlaybackPosition # currentIndex

\* C8 as stated: with at least two entries, a transition started by a tick
\* never targets the Playback Position.
C8_TargetDiffersFromPosition ==
  (lastOp.op = "tick" /\ lastOp.done /\ NumImages >= 2)
    => lastOp.to # PlaybackPosition

\* C9 as stated: with exactly one entry the Runner stays Idle.
C9_SingleEntryStaysIdle ==
  NumImages = 1 => (~Running /\ rafQueue = {})

\* C10: with an empty manifest the component shows the "no images" message,
\* no interval is registered, no transition starts and no frame is requested.
C10_EmptyManifestStatic ==
  NumImages = 0 =>
    /\ mounted => View = "noImages"
    /\ ~intervalActive
    /\ ~Running
    /\ rafQueue = {}
    /\ animationRef = NullHandle
    /\ ~HasPending
    /\ surface = Blank

\* The window was resized while the empty-manifest message was shown.
C10_Witness ==
  /\ NumImages = 0
  /\ mounted
  /\ lastOp.op = "resize"

\* C11: a tick that fires while the Runner is Running is a no-op: it draws no
\* index and starts nothing, and the pending callback with its transition
\* (from/to pair, state, start timestamp), the queued updates, the Playback
\* Position, the flag, the clock and the surface are as before.
C11_TickWhileRunningIsNoOp ==
  [][(lastOp'.op = "tick" /\ Running)
       => /\ lastOp'.from = NoIndex
          /\ lastOp'.to = NoIndex
          /\ ~lastOp'.done
          /\ rafQueue' = rafQueue
          /\ animationRef' = animationRef
          /\ pending' = pending
          /\ PlaybackPosition' = PlaybackPosition
          /\ currentIndex' = currentIndex
          /\ isTransitioningRef' = isTransitioningRef
          /\ surface' = surface
          /\ canvas' = canvas
          /\ clock' = clock]_vars

\* A tick fired while a transition was Running with one of its frames on the
\* surface.
C11_Witness ==
  /\ lastOp.op = "tick"
  /\ ~lastOp.done
  /\ Running
  /\ mounted
  /\ surface.kind = "frame"
  /\ rafQueue # {}

\* C12: when runTransition is invoked and the from or the to image is not in
\* loadedImages, the call is a no-op: the flag is not set, no update is
\* queued, no callback is registered (no init, no frame requested) and the
\* surface is as before; the flag it leaves clear lets a later tick start.
C12_MissingHandleIsNoOp ==
  [][(/\ lastOp'.op \in {"start", "tick"}
      /\ lastOp'.from \in Indices
      /\ lastOp'.to \in Indices
      /\ \/ images[lastOp'.from] \notin loadedImages
         \/ images[lastOp'.to] \notin loadedImages)
       => /\ ~lastOp'.done
          /\ isTransitioningRef' = isTransitioningRef
          /\ pending' = pending
          /\ rafQueue' = rafQueue
          /\ animationRef' = animationRef
          /\ surface' = surface
          /\ canvas' = canvas]_vars

\* runTransition was invoked before the images were loaded, and the Runner is
\* Idle.
C12_Witness ==
  /\ lastOp.op = "start"
  /\ ~lastOp.done
  /\ lastOp.from \in Indices
  /\ images[lastOp.from] \notin loadedImages
  /\ ~Running
  /\ rafQueue = {}

\* C13: teardown cancels the interval and the requested frame: on the
\* unmounted component no interval, no frame callback and no resize listener
\* is registered, no tick and no frame callback runs, and the surface, the
\* Playback Position and the Running flag stay as teardown left them.
C13_TeardownCancels ==
  /\ [](~mounted => (~intervalActive /\ rafQueue = {} /\ ~resizeListener))
  /\ [][~mounted
          => /\ lastOp'.op \notin {"tick", "frame", "render"}
             /\ surface' = surface
             /\ canvas' = canvas
             /\ PlaybackPosition' = PlaybackPosition
             /\ currentIndex' = currentIndex
             /\ isTransitioningRef' = isTransitioningRef
             /\ animationRef' = animationRef]_vars

\* The component was torn down in the middle of a transition, and an event
\* arrived afterwards.
C13_Witness ==
  /\ ~mounted
  /\ Running
  /\ animationRef # NullHandle
  /\ surface.kind = "frame"
  /\ lastOp.op = "resize"

\* C14 as stated: a resize event handled while the Runner is Idle with the
\* images loaded sets the surface to the new viewport and, in the same event,
\* draws the image at the Playback Position at the new dimensions; it starts
\* no transition and leaves the Playback Position alone.
C14_IdleResizeRedraws ==
  [][(/\ lastOp'.op = "resize"
      /\ resizeListener
      /\ ~Running
      /\ loadedImages # {})
       => /\ canvas' = viewport'
          /\ surface' = DrawStaticImage(Blank, viewport', loadedImages,
                                        PlaybackPosition)
          /\ PlaybackPosition' = PlaybackPosition
          /\ isTransitioningRef' = isTransitioningRef
          /\ rafQueue' = rafQueue]_vars

\* C15 as stated: a resize event handled while the Runner is Running sets the
\* surface dimensions, draws no static image, and leaves the transition (its
\* callback with pair, algorithm state and start timestamp) as it was.
C15_RunningResizeKeepsTransition ==
  [][(/\ lastOp'.op = "resize"
      /\ resizeListener
      /\ Running)
       => /\ canvas' = viewport'
          /\ surface'.kind # "static"
          /\ rafQueue' = rafQueue
          /\ animationRef' = animationRef
          /\ isTransitioningRef' = isTransitioningRef]_vars

\* C16 as stated: the progress passed to render by a frame callback lies in
\* [0, 1], whatever timestamp the callback receives (progress is held as the
\* numerator over TRANSITION_MS).
C16_ProgressInUnitInterval ==
  lastOp.op = "frame"
    => (0 <= surface.progress /\ surface.progress <= TRANSITION_MS)

\* C17: within one transition the progress values passed to render never
\* decrease from one frame to the next, the completing frame has progress 1,
\* and no frame is rendered, and none is requested, after the frame with
\* progress 1.
C17_ProgressNonDecreasing ==
  /\ (lastOp.op = "frame" /\ lastOp.prev # NoProgress)
       => (lastOp.prev <= surface.progress /\ lastOp.prev < TRANSITION_MS)
  /\ (lastOp.op = "frame" /\ lastOp.done) => surface.progress = TRANSITION_MS
  /\ \A cb \in rafQueue : cb.last < TRANSITION_MS

\* A transition completed with a frame that followed a frame of lesser
\* progress.
C17_Witness ==
  /\ lastOp.op = "frame"
  /\ lastOp.done
  /\ lastOp.prev # NoProgress
  /\ lastOp.prev < surface.progress
  /\ surface.progress = TRANSITION_MS

\* ------------------------------------------------- functions on their own
\* The variables of the component.
component ==
  <<images, imgState, loaded, loadCount, loadedImages, currentIndex,
    isTransitioning, pending, isTransitioningRef, animationRef,
    currentIndexRef, viewport, canvas, surface, intervalActive,
    resizeListener, mounted, rafQueue, clock, lastOp>>

\* The module is loaded and no component is mounted: only the module-level
\* functions and transition objects exist.
NoComponent ==
  /\ images = [i \in {} |-> 0]
  /\ imgState = [i \in {} |-> "pending"]
  /\ loaded = {}
  /\ loadCount = 0
  /\ loadedImages = {}
  /\ currentIndex = 0
  /\ isTransitioning = FALSE
  /\ pending = NoPending
  /\ isTransitioningRef = FALSE
  /\ animationRef = NullHandle
  /\ currentIndexRef = 0
  /\ viewport = CHOOSE vp \in Viewports : TRUE
  /\ canvas = NoCanvas
  /\ surface = Blank
  /\ intervalActive = FALSE
  /\ resizeListener = FALSE
  /\ mounted = FALSE
  /\ rafQueue = {}
  /\ clock = 0
  /\ lastOp = Op("none", NoIndex, NoIndex, FALSE)

\* ------------------------------------------------------ mosaic block size
MIN_BLOCK_SIZE == 1
MAX_BLOCK_SIZE == 48

\* Progress values are the fractions k / ProgressDen, k in 0..ProgressDen;
\* 0.5 is ProgressSteps / ProgressDen.
ProgressDen == 2 * ProgressSteps

\* Math.pow(x, 3)
Cube(x) == x * x * x

\* Eased values and block sizes are held as numerators over EaseDen.
EaseDen == 2 * Cube(ProgressDen)

\* easeInOutCubic(t) for t = a / ProgressDen:
\*   t < 0.5 ? 4 * t * t * t : 1 - Math.pow(-2 * t + 2, 3) / 2
easeInOutCubic(a) ==
  IF 2 * a < ProgressDen
  THEN 8 * Cube(a)
  ELSE EaseDen - Cube(2 * ProgressDen - 2 * a)

\* Mutant of MosaicBlockSize: the second half grows from the minimum as the
\* first half does.
MosaicBlockSizeGrowing(k) ==
  IF 2 * k < ProgressDen
  THEN MIN_BLOCK_SIZE * EaseDen
         + (MAX_BLOCK_SIZE - MIN_BLOCK_SIZE) * easeInOutCubic(2 * k)
  ELSE MIN_BLOCK_SIZE * EaseDen
         + (MAX_BLOCK_SIZE - MIN_BLOCK_SIZE)
             * easeInOutCubic(2 * k - ProgressDen)

\* blockSize as mosaicTransition.render computes it for progress
\* k / ProgressDen: t = progress * 2 below 0.5, t = (progress - 0.5) * 2 from
\* 0.5 on.
MosaicBlockSize(k) ==
  IF 2 * k < ProgressDen
  THEN MIN_BLOCK_SIZE * EaseDen
         + (MAX_BLOCK_SIZE - MIN_BLOCK_SIZE) * easeInOutCubic(2 * k)
  ELSE MAX_BLOCK_SIZE * EaseDen
         - (MAX_BLOCK_SIZE - MIN_BLOCK_SIZE)
             * easeInOutCubic(2 * k - ProgressDen)

\* Mutant of MosaicImage: the from image is still drawn at progress 0.5.
MosaicImageLateSwitch(k, fromImg, toImg) ==
  IF 2 * k <= ProgressDen THEN fromImg ELSE toImg

\* image as mosaicTransition.render chooses it for progress k / ProgressDen
MosaicImage(k, fromImg, toImg) ==
  IF 2 * k < ProgressDen THEN fromImg ELSE toImg

\* Two progress values in [0, 1] for two calls of mosaicTransition.render.
InitMosaic ==
  /\ NoComponent
  /\ \E p, q \in 0..ProgressDen :
       calc = [fn |-> "mosaic", p |-> p, q |-> q, done |-> FALSE,
               blockP |-> 0, blockQ |-> 0, imageP |-> "none"]

\* The two calls compute their block sizes.
MosaicRender ==
  /\ calc.fn = "mosaic"
  /\ ~calc.done
  /\ calc' = [calc EXCEPT !.done = TRUE,
                          !.blockP = MosaicBlockSize(calc.p),
                          !.blockQ = MosaicBlockSize(calc.q),
                          !.imageP = MosaicImage(calc.p, "from", "to")]
  /\ UNCHANGED component

NextMosaic == MosaicRender

SpecMosaic == InitMosaic /\ [][NextMosaic]_vars

\* C19: over progress in [0, 1] the mosaic block size does not decrease on
\* [0, 0.5], does not increase on [0.5, 1], is minBlockSize at 0 and at 1,
\* maxBlockSize at 0.5, and lies in [minBlockSize, maxBlockSize].
C19_MosaicBlockSizeShape ==
  (calc.fn = "mosaic" /\ calc.done)
    => /\ (calc.p <= calc.q /\ calc.q <= ProgressSteps)
            => calc.blockP <= calc.blockQ
       /\ (ProgressSteps <= calc.p /\ calc.p <= calc.q)
            => calc.blockP >= calc.blockQ
       /\ calc.p = 0 => calc.blockP = MIN_BLOCK_SIZE * EaseDen
       /\ calc.p = ProgressDen => calc.blockP = MIN_BLOCK_SIZE * EaseDen
       /\ calc.p = ProgressSteps => calc.blockP = MAX_BLOCK_SIZE * EaseDen
       /\ MIN_BLOCK_SIZE * EaseDen <= calc.blockP
       /\ calc.blockP <= MAX_BLOCK_SIZE * EaseDen

\* Block sizes were computed on the falling half, strictly between the
\* extremes, and at the end.
C19_Witness ==
  /\ calc.fn = "mosaic"
  /\ calc.done
  /\ ProgressSteps < calc.p
  /\ calc.p < calc.q
  /\ calc.q = ProgressDen
  /\ calc.blockP < MAX_BLOCK_SIZE * EaseDen
  /\ calc.blockP > calc.blockQ
  /\ calc.blockQ = MIN_BLOCK_SIZE * EaseDen

\* C31: mosaic render draws the from image for every progress below 0.5 and
\* the to image for every progress from 0.5 on, and the block sizes of two
\* progress values mirrored about the midpoint (p + q = 1) are equal.
C31_MosaicMirrored ==
  (calc.fn = "mosaic" /\ calc.done)
    => /\ calc.imageP = (IF calc.p < ProgressSteps THEN "from" ELSE "to")
       /\ calc.p + calc.q = ProgressDen => calc.blockP = calc.blockQ

\* The to image was drawn in the second half, at a progress whose mirror
\* image in the first half got the same block size, strictly between the
\* extremes.
C31_Witness ==
  /\ calc.fn = "mosaic"
  /\ calc.done
  /\ ProgressSteps < calc.p
  /\ calc.p < ProgressDen
  /\ calc.p + calc.q = ProgressDen
  /\ calc.imageP = "to"
  /\ calc.blockP = calc.blockQ
  /\ calc.blockP > MIN_BLOCK_SIZE * EaseDen
  /\ calc.blockP < MAX_BLOCK_SIZE * EaseDen

\* ------------------------------------------------------ grid cell order
\* Mutant of Swap: the element at i is overwritten and the one at j stays.
SwapOverwriting(result, i, j) == [result EXCEPT ![i] = result[j]]

\* [result[i], result[j]] = [result[j], result[i]]
Swap(result, i, j) == [result EXCEPT ![i] = result[j], ![j] = result[i]]

\* gridRevealTransition.init for a grid of cols x rows cells calls
\* shuffleArray on Array.from({ length: totalCells }, (_, i) => i): result is
\* the copy [...array] and i the loop variable, at result.length - 1.
InitShuffle ==
  /\ NoComponent
  /\ \E cols, rows \in 1..MaxCells :
       /\ cols * rows <= MaxCells
       /\ calc = [fn |-> "shuffle", cols |-> cols, rows |-> rows,
                  array |-> [c \in 0..(cols * rows - 1) |-> c],
                  result |-> [c \in 0..(cols * rows - 1) |-> c],
                  i |-> cols * rows - 1, draws |-> <<>>,
                  returned |-> FALSE]

\* Mutant of DrawRange: the draw never picks i itself.
DrawRangeBelow(i) == 0..(i - 1)

\* The values of Math.floor(Math.random() * (i + 1))
DrawRange(i) == 0..i

\* One iteration of shuffleArray's loop, j = Math.floor(Math.random() * (i+1));
\* draws records the values of j.  The loop works on result, the copy of
\* array.
ShuffleStep ==
  /\ calc.fn = "shuffle"
  /\ calc.i > 0
  /\ \E j \in DrawRange(calc.i) :
       calc' = [calc EXCEPT !.result = Swap(calc.result, calc.i, j),
                            !.i = calc.i - 1,
                            !.draws = Append(calc.draws, j)]
  /\ UNCHANGED component

\* The loop has ended: shuffleArray returns result, which init stores as
\* cellOrder.
ShuffleReturn ==
  /\ calc.fn = "shuffle"
  /\ calc.i <= 0
  /\ ~calc.returned
  /\ calc' = [calc EXCEPT !.returned = TRUE]
  /\ UNCHANGED component

NextShuffle == ShuffleStep \/ ShuffleReturn

SpecShuffle == InitShuffle /\ [][NextShuffle]_vars

\* C20: for a grid of cols x rows cells and every outcome of the random
\* draws, the cell order init generates holds every cell index
\* 0..cols*rows-1 exactly once.
C20_CellOrderIsBijection ==
  (calc.fn = "shuffle" /\ calc.returned)
    => /\ DOMAIN calc.result = 0..(calc.cols * calc.rows - 1)
       /\ \A c \in 0..(calc.cols * calc.rows - 1) :
            Cardinality({i \in DOMAIN calc.result : calc.result[i] = c}) = 1

\* A returned order for the largest grid in which no cell kept its place.
C20_Witness ==
  /\ calc.fn = "shuffle"
  /\ calc.returned
  /\ calc.cols * calc.rows = MaxCells
  /\ calc.cols > 1
  /\ calc.rows > 1
  /\ \A i \in DOMAIN calc.result : calc.result[i] # i

\* ------------------------------------------------- shuffle as a function
\* shuffleArray's loop from index i on, the draws being given.
RECURSIVE ShuffleLoop(_, _, _)
ShuffleLoop(result, i, draws) ==
  IF i <= 0 THEN result
  ELSE ShuffleLoop(Swap(result, i, Head(draws)), i - 1, Tail(draws))

\* shuffleArray(array) when Math.random() yields the given draws
shuffleArray(array, draws) ==
  ShuffleLoop(array, Cardinality(DOMAIN array) - 1, draws)

\* The sequences of draws of one call for an array of n elements: one draw
\* for each i from n - 1 down to 1.
DrawSeqs(n) ==
  IF n <= 1 THEN {<<>>}
  ELSE {d \in [1..(n - 1) -> 0..(n - 1)] :
          \A s \in 1..(n - 1) : d[s] \in DrawRange(n - s)}

\* shuffleArray is called on an array of up to MaxItems distinct elements,
\* in rising or in falling order.
InitFisherYates ==
  /\ NoComponent
  /\ \E n \in 0..MaxItems :
       \E array \in {[c \in 0..(n - 1) |-> c],
                     [c \in 0..(n - 1) |-> n - 1 - c]} :
         calc = [fn |-> "shuffle", cols |-> n, rows |-> 1,
                 array |-> array, result |-> array, i |-> n - 1,
                 draws |-> <<>>, returned |-> FALSE]

SpecFisherYates == InitFisherYates /\ [][NextShuffle]_vars

RECURSIVE Factorial(_)
Factorial(n) == IF n <= 1 THEN 1 ELSE n * Factorial(n - 1)

\* C32: shuffleArray is a full Fisher-Yates shuffle.  For an input of n
\* elements the returned array is a rearrangement of the input, the draws
\* that were made are the only sequence of draws that returns it, the
\* sequences of draws return n! different arrays (every permutation, each
\* by one sequence), and the input array is as it was passed.
C32_FullFisherYates ==
  (calc.fn = "shuffle" /\ calc.returned)
    => LET n == Cardinality(DOMAIN calc.array)
           input == [c \in 0..(n - 1) |-> calc.array[c]]
       IN /\ calc.array \in {[c \in 0..(n - 1) |-> c],
                             [c \in 0..(n - 1) |-> n - 1 - c]}
          /\ \A c \in 0..(n - 1) :
               Cardinality({i \in DOMAIN calc.result :
                              calc.result[i] = input[c]}) = 1
          /\ calc.draws \in DrawSeqs(n)
          /\ calc.result = shuffleArray(input, calc.draws)
          /\ \A d \in DrawSeqs(n) :
               shuffleArray(input, d) = calc.result => d = calc.draws
          /\ Cardinality({shuffleArray(input, d) : d \in DrawSeqs(n)})
               = Factorial(n)

\* A shuffle of the largest array returned with every element moved.
C32_Witness ==
  /\ calc.fn = "shuffle"
  /\ calc.returned
  /\ Cardinality(DOMAIN calc.array) = MaxItems
  /\ Len(calc.draws) = MaxItems - 1
  /\ \A c \in DOMAIN calc.array : calc.result[c] # calc.array[c]

\* --------------------------------------------------- the render functions
CONTAINER_SAMPLE_COLS == 6
CONTAINER_SAMPLE_ROWS == 4

\* JavaScript numbers that are not integers are held as fractions <<n, d>>
\* in lowest terms with d > 0.
RECURSIVE GCD(_, _)
GCD(a, b) == IF b = 0 THEN a ELSE GCD(b, a % b)

Frac(n, d) ==
  LET g == GCD(IF n < 0 THEN 0 - n ELSE n, d) IN <<n \div g, d \div g>>

Num(n) == <<n, 1>>
FAdd(a, b) == Frac(a[1] * b[2] + b[1] * a[2], a[2] * b[2])
FSub(a, b) == Frac(a[1] * b[2] - b[1] * a[2], a[2] * b[2])
FMul(a, b) == Frac(a[1] * b[1], a[2] * b[2])
\* a / b for b > 0
FDiv(a, b) == Frac(a[1] * b[2], a[2] * b[1])
FLess(a, b) == a[1] * b[2] < b[1] * a[2]

\* CELL_FADE_DURATION = 0.1
CELL_FADE_DURATION == <<1, 10>>

\* The loaded images a render call can be given (HTMLImageElement with its
\* naturalWidth and naturalHeight).  They are opaque.
Pictures ==
  {[id |-> 1, naturalWidth |-> 3, naturalHeight |-> 2],
   [id |-> 2, naturalWidth |-> 2, naturalHeight |-> 3]}

\* document.createElement('canvas') with the context it returns: a 300 x 150
\* bitmap with nothing drawn, and the drawing state's defaults.  content is
\* the sequence of draws that make up the bitmap, lowest first.
CreateCanvas ==
  [width |-> 300, height |-> 150, content |-> <<>>, globalAlpha |-> Num(1),
   imageSmoothingEnabled |-> TRUE, imageSmoothingQuality |-> "low",
   clip |-> <<>>]

\* The value null of a module-level canvas variable.
NullCanvas == [CreateCanvas EXCEPT !.width = 0, !.height = 0]

\* canvas.width = w; canvas.height = h: the bitmap is cleared and the drawing
\* state is reset.
SetSize(cv, w, h) == [CreateCanvas EXCEPT !.width = w, !.height = h]

\* The lazily created scratch canvas, resized when its size is not w x h.
Offscreen(cv, w, h) ==
  LET c == IF cv = NullCanvas THEN CreateCanvas ELSE cv
  IN IF c.width # w \/ c.height # h THEN SetSize(c, w, h) ELSE c

\* What drawImage reads: an image, or the present bitmap of a canvas.
ImageSource(image) ==
  [kind |-> "image", id |-> image.id, width |-> image.naturalWidth,
   height |-> image.naturalHeight, content |-> <<>>]

CanvasSource(cv) ==
  [kind |-> "canvas", id |-> 0, width |-> cv.width, height |-> cv.height,
   content |-> cv.content]

Rect(x, y, w, h) == [x |-> x, y |-> y, w |-> w, h |-> h]

\* What ctx.drawImage(src, s.x, s.y, s.w, s.h, d.x, d.y, d.w, d.h) puts on
\* the bitmap with the drawing state of ctx.
Layer(cv, src, s, d) ==
  [src |-> src, s |-> s, d |-> d, alpha |-> cv.globalAlpha,
   smoothing |-> cv.imageSmoothingEnabled,
   quality |-> IF cv.imageSmoothingEnabled
               THEN cv.imageSmoothingQuality ELSE "none",
   clip |-> cv.clip]

\* An opaque source drawn unclipped at full alpha over the whole w x h bitmap
\* replaces what was there; any other draw lies on top of it.
Replaces(layer, w, h) ==
  /\ layer.alpha = Num(1)
  /\ layer.clip = <<>>
  /\ layer.d = Rect(Num(0), Num(0), Num(w), Num(h))

\* The bitmap after the draws of layers, in order.
Paint(cv, layers) ==
  LET replacing == {j \in 1..Len(layers) :
                      Replaces(layers[j], cv.width, cv.height)}
  IN IF replacing = {} THEN cv.content \o layers
     ELSE SubSeq(layers,
                 CHOOSE j \in replacing : \A i \in replacing : i <= j,
                 Len(layers))

DrawImage(cv, src, s, d) ==
  [cv EXCEPT !.content = Paint(cv, <<Layer(cv, src, s, d)>>)]

\* Mutant of CropOffset: the whole excess is cut from the first side.
CropOffsetUnhalved(extent, s) == FSub(Num(extent), s)

\* (image.naturalWidth - sw) / 2 and (image.naturalHeight - sh) / 2
CropOffset(extent, s) == FDiv(FSub(Num(extent), s), Num(2))

\* Mutant of getCoverFitRect: the whole image is taken.
getCoverFitRectUncropped(image, canvasWidth, canvasHeight) ==
  Rect(Num(0), Num(0), Num(image.naturalWidth), Num(image.naturalHeight))

getCoverFitRect(image, canvasWidth, canvasHeight) ==
  LET imgAspect == FDiv(Num(image.naturalWidth), Num(image.naturalHeight))
      canvasAspect == FDiv(Num(canvasWidth), Num(canvasHeight))
  IN IF FLess(canvasAspect, imgAspect)
     THEN LET sw == FMul(Num(image.naturalHeight), canvasAspect)
          IN Rect(CropOffset(image.naturalWidth, sw), Num(0),
                  sw, Num(image.naturalHeight))
     ELSE LET sh == FDiv(Num(image.naturalWidth), canvasAspect)
          IN Rect(Num(0), CropOffset(image.naturalHeight, sh),
                  Num(image.naturalWidth), sh)

drawImageCoverFit(cv, image, canvasWidth, canvasHeight) ==
  DrawImage([cv EXCEPT !.imageSmoothingEnabled = TRUE,
                       !.imageSmoothingQuality = "high"],
            ImageSource(image),
            getCoverFitRect(image, canvasWidth, canvasHeight),
            Rect(Num(0), Num(0), Num(canvasWidth), Num(canvasHeight)))

\* drawMosaicImage, blockSize being a numerator over EaseDen.  m holds the
\* canvas of ctx (main) and the module-level scratch canvases.
drawMosaicImage(m, image, canvasWidth, canvasHeight, blockSize) ==
  IF blockSize <= EaseDen
  THEN [m EXCEPT !.main = drawImageCoverFit(@, image, canvasWidth,
                                            canvasHeight)]
  ELSE LET block == (2 * blockSize + EaseDen) \div (2 * EaseDen)
           smallWidth == (canvasWidth + block - 1) \div block
           smallHeight == (canvasHeight + block - 1) \div block
           off == Offscreen(m.mosaicOffscreenCanvas, smallWidth, smallHeight)
           small == DrawImage(
                      [off EXCEPT !.imageSmoothingEnabled = TRUE,
                                  !.imageSmoothingQuality = "medium"],
                      ImageSource(image),
                      getCoverFitRect(image, canvasWidth, canvasHeight),
                      Rect(Num(0), Num(0), Num(smallWidth), Num(smallHeight)))
       IN [m EXCEPT
             !.mosaicOffscreenCanvas = small,
             !.main = DrawImage(
                        [@ EXCEPT !.imageSmoothingEnabled = FALSE],
                        CanvasSource(small),
                        Rect(Num(0), Num(0), Num(smallWidth), Num(smallHeight)),
                        Rect(Num(0), Num(0), Num(canvasWidth),
                             Num(canvasHeight)))]

\* mosaicTransition.render at progress k / ProgressDen
RenderMosaic(m, fromImg, toImg, width, height, k) ==
  drawMosaicImage(m, MosaicImage(k, fromImg, toImg), width, height,
                  MosaicBlockSize(k))

\* Math.max(0, Math.min(1, x))
Clamp01(x) ==
  IF x[1] <= 0 THEN Num(0) ELSE IF x[1] >= x[2] THEN Num(1) ELSE x

\* Mutant of CellOpacity: the start times are spread over the whole of
\* [0, 1), without the factor (1 - CELL_FADE_DURATION).
CellOpacityLateStart(i, totalCells, k) ==
  Clamp01(FDiv(FSub(Frac(k, ProgressDen), FDiv(Num(i), Num(totalCells))),
               CELL_FADE_DURATION))

\* cellOpacity of the i-th cell of the order at progress k / ProgressDen
CellOpacity(i, totalCells, k) ==
  LET startTime == FMul(FDiv(Num(i), Num(totalCells)),
                        FSub(Num(1), CELL_FADE_DURATION))
  IN Clamp01(FDiv(FSub(Frac(k, ProgressDen), startTime),
                  CELL_FADE_DURATION))

\* The iteration of the loop of gridRevealTransition.render for the i-th
\* cell of the order: the draw it makes, at the opacity it sets.
RevealCell(cv, off, state, k, totalCells, i) ==
  LET cellOpacity == CellOpacity(i, totalCells, k)
      cellIndex == state.cellOrder[i]
      col == cellIndex % GridCols
      row == cellIndex \div GridCols
      cell == Rect(FMul(Num(col), state.cellWidth),
                   FMul(Num(row), state.cellHeight),
                   state.cellWidth, state.cellHeight)
  IN Layer([cv EXCEPT !.globalAlpha = cellOpacity], CanvasSource(off),
           cell, cell)

\* if (cellOpacity <= 0) continue
Revealed(layer) == layer.alpha[1] > 0

\* The loop over the cells: the draws of the iterations that do not
\* `continue`, in order; globalAlpha is left at the last opacity set.
RevealCells(cv, off, state, k) ==
  LET totalCells == Cardinality(DOMAIN state.cellOrder)
      draws == SelectSeq([j \in 1..totalCells
                            |-> RevealCell(cv, off, state, k, totalCells,
                                           j - 1)],
                         Revealed)
  IN IF draws = <<>> THEN cv
     ELSE [cv EXCEPT !.content = Paint(cv, draws),
                     !.globalAlpha = draws[Len(draws)].alpha]

\* Mutant of RenderGridReveal: globalAlpha is not reset after the cells.
RenderGridRevealKeepingAlpha(m, fromImg, toImg, width, height, k, state) ==
  LET base == drawImageCoverFit(m.main, fromImg, width, height)
      off == drawImageCoverFit(Offscreen(m.gridOffscreenCanvas, width, height),
                               toImg, width, height)
  IN [m EXCEPT !.gridOffscreenCanvas = off,
               !.main = RevealCells(base, off, state, k)]

\* gridRevealTransition.render
RenderGridReveal(m, fromImg, toImg, width, height, k, state) ==
  LET base == drawImageCoverFit(m.main, fromImg, width, height)
      off == drawImageCoverFit(Offscreen(m.gridOffscreenCanvas, width, height),
                               toImg, width, height)
      cells == RevealCells(base, off, state, k)
  IN [m EXCEPT !.gridOffscreenCanvas = off,
               !.main = [cells EXCEPT !.globalAlpha = Num(1)]]

\* Mutant of ExpandingRect: the rectangle starts with its corner, not its
\* centre, at the origin.
ExpandingRectFromCorner(width, height, k, state) ==
  LET eased == Frac(easeInOutCubic(k), EaseDen)
      startWidth == state.originWidth
      startHeight == state.originHeight
      startX == state.originX
      startY == state.originY
  IN Rect(FAdd(startX, FMul(FSub(Num(0), startX), eased)),
          FAdd(startY, FMul(FSub(Num(0), startY), eased)),
          FAdd(startWidth, FMul(FSub(Num(width), startWidth), eased)),
          FAdd(startHeight, FMul(FSub(Num(height), startHeight), eased)))

\* The rectangle (currentX, currentY, currentWidth, currentHeight) that
\* containerTransition.render clips to at progress k / ProgressDen.
ExpandingRect(width, height, k, state) ==
  LET eased == Frac(easeInOutCubic(k), EaseDen)
      startWidth == state.originWidth
      startHeight == state.originHeight
      startX == FSub(state.originX, FDiv(startWidth, Num(2)))
      startY == FSub(state.originY, FDiv(startHeight, Num(2)))
      currentWidth == FAdd(startWidth,
                           FMul(FSub(Num(width), startWidth), eased))
      currentHeight == FAdd(startHeight,
                            FMul(FSub(Num(height), startHeight), eased))
      currentX == FAdd(startX, FMul(FSub(Num(0), startX), eased))
      currentY == FAdd(startY, FMul(FSub(Num(0), startY), eased))
  IN Rect(currentX, currentY, currentWidth, currentHeight)

\* containerTransition.render
RenderContainer(m, fromImg, toImg, width, height, k, state) ==
  LET base == drawImageCoverFit(m.main, fromImg, width, height)
      off == drawImageCoverFit(
               Offscreen(m.containerOffscreenCanvas, width, height),
               toImg, width, height)
      \* ctx.save(), beginPath, rect, clip
      clipped == [base EXCEPT !.clip = Append(@, ExpandingRect(width, height,
                                                              k, state))]
      \* ctx.drawImage(containerOffscreenCanvas, 0, 0)
      drawn == DrawImage(clipped, CanvasSource(off),
                         Rect(Num(0), Num(0), Num(off.width), Num(off.height)),
                         Rect(Num(0), Num(0), Num(off.width), Num(off.height)))
      \* ctx.restore()
      restored == [drawn EXCEPT
                     !.clip = base.clip,
                     !.globalAlpha = base.globalAlpha,
                     !.imageSmoothingEnabled = base.imageSmoothingEnabled,
                     !.imageSmoothingQuality = base.imageSmoothingQuality]
  IN [m EXCEPT !.containerOffscreenCanvas = off, !.main = restored]

\* transition.render(ctx, fromImg, toImg, canvas.width, canvas.height,
\* progress, state) for the arguments a.
RenderWith(m, a) ==
  CASE a.transition = "mosaic" ->
         RenderMosaic(m, a.from, a.to, m.main.width, m.main.height,
                      a.progress)
    [] a.transition = "gridReveal" ->
         RenderGridReveal(m, a.from, a.to, m.main.width, m.main.height,
                          a.progress, a.state)
    [] a.transition = "container" ->
         RenderContainer(m, a.from, a.to, m.main.width, m.main.height,
                         a.progress, a.state)

\* The value findDarkestRegion returns: the centre and the size of the cell
\* (darkestCol, darkestRow) of the sample grid.
DarkestRegion(darkestCol, darkestRow, canvasWidth, canvasHeight) ==
  LET cellWidth == FDiv(Num(canvasWidth), Num(CONTAINER_SAMPLE_COLS))
      cellHeight == FDiv(Num(canvasHeight), Num(CONTAINER_SAMPLE_ROWS))
  IN [x |-> FAdd(FMul(Num(darkestCol), cellWidth), FDiv(cellWidth, Num(2))),
      y |-> FAdd(FMul(Num(darkestRow), cellHeight), FDiv(cellHeight, Num(2))),
      width |-> cellWidth,
      height |-> cellHeight]

\* The state containerTransition.init returns for the region darkest.
ContainerInit(darkest) ==
  [originX |-> darkest.x, originY |-> darkest.y,
   originWidth |-> darkest.width, originHeight |-> darkest.height]

\* The progress values render is called with: the ends, the middle, and a
\* value inside the first half.
RenderProgress == {0, 1, ProgressSteps, ProgressDen}

\* The canvas size at which the transitions were initialised; the canvas may
\* have been resized since.
InitSizes == {CHOOSE vp \in Viewports : TRUE}

\* States gridRevealTransition.init returns: a cell order (here the order
\* reversed, one outcome of the shuffle) and the cell size at the size init
\* saw.
GridStates ==
  {[cellOrder |-> [i \in 0..(GridCols * GridRows - 1)
                     |-> GridCols * GridRows - 1 - i],
    cellWidth |-> FDiv(Num(vp.width), Num(GridCols)),
    cellHeight |-> FDiv(Num(vp.height), Num(GridRows))] : vp \in InitSizes}

\* States containerTransition.init returns: the centre and size of the
\* darkest sample cell (darkestCol, darkestRow) at the size init saw.
ContainerStates ==
  {ContainerInit(DarkestRegion(d[1], d[2], vp.width, vp.height))
   : vp \in InitSizes,
     d \in {<<CONTAINER_SAMPLE_COLS - 1, CONTAINER_SAMPLE_ROWS - 1>>}}

RenderStates(tr) ==
  CASE tr = "mosaic" -> {[cellOrder |-> <<>>]}
    [] tr = "gridReveal" -> GridStates
    [] tr = "container" -> ContainerStates

\* The module is loaded (no scratch canvas exists) and the canvas has the
\* size of the viewport, with nothing drawn.
Pristine(w, h) ==
  [fn |-> "render", main |-> SetSize(CreateCanvas, w, h),
   mosaicOffscreenCanvas |-> NullCanvas, gridOffscreenCanvas |-> NullCanvas,
   containerOffscreenCanvas |-> NullCanvas, rendered |-> FALSE,
   args |-> [transition |-> "none"]]

InitRender ==
  /\ NoComponent
  /\ \E vp \in Viewports : calc = Pristine(vp.width, vp.height)

\* One call of a transition's render, as animate makes it.
TransitionRender ==
  /\ calc.fn = "render"
  /\ \E tr \in TRANSITIONS, fromImg \in Pictures, toImg \in Pictures,
        k \in RenderProgress :
       \E state \in RenderStates(tr) :
         LET a == [transition |-> tr, from |-> fromImg, to |-> toImg,
                   progress |-> k, state |-> state]
         IN /\ fromImg # toImg
            /\ calc' = [RenderWith(calc, a) EXCEPT !.rendered = TRUE,
                                                   !.args = a]
  /\ UNCHANGED component

\* handleResize's canvas.width = ..., canvas.height = ... between two frames.
SurfaceResize ==
  /\ calc.fn = "render"
  /\ \E vp \in Viewports :
       /\ vp # [width |-> calc.main.width, height |-> calc.main.height]
       /\ calc' = [calc EXCEPT !.main = SetSize(@, vp.width, vp.height),
                               !.rendered = FALSE]
  /\ UNCHANGED component

NextRender == TransitionRender \/ SurfaceResize

SpecRender == InitRender /\ [][NextRender]_vars

\* C18: the frame a render call leaves on the surface is the frame the same
\* call (same images, size, progress and state) draws on a cleared surface
\* with no scratch surface in existence: it does not depend on what earlier
\* calls, of any algorithm, at any progress, left behind.
C18_FrameDependsOnArgumentsOnly ==
  (calc.fn = "render" /\ calc.rendered)
    => calc.main.content
         = RenderWith(Pristine(calc.main.width, calc.main.height),
                      calc.args).main.content

\* A grid frame with cells part-way through their fade, rendered after the
\* other two algorithms had drawn and left their scratch surfaces behind.
C18_Witness ==
  /\ calc.fn = "render"
  /\ calc.rendered
  /\ calc.args.transition = "gridReveal"
  /\ calc.args.progress = ProgressSteps
  /\ \E j \in 1..Len(calc.main.content) :
       /\ calc.main.content[j].alpha # Num(1)
       /\ calc.main.content[j].alpha # Num(0)
  /\ calc.mosaicOffscreenCanvas # NullCanvas
  /\ calc.containerOffscreenCanvas # NullCanvas
  /\ calc.gridOffscreenCanvas.width = calc.main.width

\* ------------------------------------------------------ grid cell opacity
GRID_COLS == 16
GRID_ROWS == 12

\* The lengths of cellOrder: the grid of the source and the scaled grid.
CellCounts == {GRID_COLS * GRID_ROWS, GridCols * GridRows}

\* One iteration of the loop of gridRevealTransition.render: a rank i in the
\* cell order and a progress k / ProgressDen, which animate bounds above by 1
\* only.
InitOpacity ==
  /\ NoComponent
  /\ \E totalCells \in CellCounts :
       \E i \in 0..(totalCells - 1), k \in (0 - ProgressSteps)..ProgressDen :
         calc = [fn |-> "opacity", totalCells |-> totalCells, i |-> i,
                 k |-> k, done |-> FALSE, cellOpacity |-> Num(0)]

\* The iteration computes cellOpacity.
OpacityRender ==
  /\ calc.fn = "opacity"
  /\ ~calc.done
  /\ calc' = [calc EXCEPT
                !.done = TRUE,
                !.cellOpacity = CellOpacity(calc.i, calc.totalCells, calc.k)]
  /\ UNCHANGED component

NextOpacity == OpacityRender

SpecOpacity == InitOpacity /\ [][NextOpacity]_vars

\* C21: the opacity of the cell of rank i is
\* clamp((progress - i/totalCells * (1 - fadeFraction)) / fadeFraction, 0, 1)
\* with fadeFraction = 1/10, that is, with
\* x = (10 * k * totalCells - 9 * i * ProgressDen) over ProgressDen * totalCells,
\* 0 when x <= 0, 1 when x >= 1 and x otherwise; it lies in [0, 1] for every
\* progress, and at progress = 1 it is 1 for every rank.
C21_CellOpacityClamped ==
  (calc.fn = "opacity" /\ calc.done)
    => LET n == 10 * calc.k * calc.totalCells - 9 * calc.i * ProgressDen
           d == ProgressDen * calc.totalCells
           o == calc.cellOpacity
       IN /\ o[2] > 0
          /\ 0 <= o[1]
          /\ o[1] <= o[2]
          /\ n <= 0 => o = Num(0)
          /\ n >= d => o = Num(1)
          /\ (0 < n /\ n < d) => o[1] * d = n * o[2]
          /\ calc.k = ProgressDen => o = Num(1)

\* The last cell of the order of the source's grid at progress = 1.
C21_Witness ==
  /\ calc.fn = "opacity"
  /\ calc.done
  /\ calc.totalCells = GRID_COLS * GRID_ROWS
  /\ calc.i = calc.totalCells - 1
  /\ calc.k = ProgressDen
  /\ calc.cellOpacity = Num(1)

\* ------------------------------------------------ container origin sampling
\* The values avgBrightness takes: 0 (black) to 255 (white).
Levels == {(255 * s) \div (Shades - 1) : s \in 0..(Shades - 1)}

SampleCells == 0..(CONTAINER_SAMPLE_COLS * CONTAINER_SAMPLE_ROWS - 1)

\* Canvas sizes at which every sample cell holds at least one pixel.
SampledSizes == {[width |-> 12, height |-> 8], [width |-> 8, height |-> 12]}

\* findDarkestRegion(image, canvasWidth, canvasHeight) is entered: the image
\* drawn on the sample canvas is given by the average brightness avg its
\* sampled pixels have in each cell (cell row * CONTAINER_SAMPLE_COLS + col):
\* one value everywhere but in up to two cells.  row and col are the loop
\* variables.
InitDarkest ==
  /\ NoComponent
  /\ \E size \in SampledSizes, ground, v1, v2 \in Levels,
        c1, c2 \in SampleCells :
       calc = [fn |-> "darkest", size |-> size,
               avg |-> [c \in SampleCells
                          |-> IF c = c1 THEN v1
                              ELSE IF c = c2 THEN v2 ELSE ground],
               row |-> 0, col |-> 0, darkestBrightness |-> 255,
               darkestCol |-> 0, darkestRow |-> 0, returned |-> FALSE,
               region |-> [x |-> Num(0), y |-> Num(0), width |-> Num(0),
                           height |-> Num(0)]]

\* Mutant of Darker: the comparison is reversed.
Brighter(avgBrightness, darkestBrightness) ==
  avgBrightness > darkestBrightness

\* if (avgBrightness < darkestBrightness)
Darker(avgBrightness, darkestBrightness) == avgBrightness < darkestBrightness

\* One iteration of the inner loop: the cell (col, row) is sampled.
SampleCell ==
  /\ calc.fn = "darkest"
  /\ calc.row < CONTAINER_SAMPLE_ROWS
  /\ LET avgBrightness == calc.avg[calc.row * CONTAINER_SAMPLE_COLS + calc.col]
         sampled == IF Darker(avgBrightness, calc.darkestBrightness)
                    THEN [calc EXCEPT !.darkestBrightness = avgBrightness,
                                      !.darkestCol = calc.col,
                                      !.darkestRow = calc.row]
                    ELSE calc
     IN calc' = IF calc.col + 1 < CONTAINER_SAMPLE_COLS
                THEN [sampled EXCEPT !.col = calc.col + 1]
                ELSE [sampled EXCEPT !.col = 0, !.row = calc.row + 1]
  /\ UNCHANGED component

\* The loops have ended: the region of (darkestCol, darkestRow) is returned.
DarkestReturn ==
  /\ calc.fn = "darkest"
  /\ calc.row >= CONTAINER_SAMPLE_ROWS
  /\ ~calc.returned
  /\ calc' = [calc EXCEPT
                !.returned = TRUE,
                !.region = DarkestRegion(calc.darkestCol, calc.darkestRow,
                                         calc.size.width, calc.size.height)]
  /\ UNCHANGED component

NextDarkest == SampleCell \/ DarkestReturn

SpecDarkest == InitDarkest /\ [][NextDarkest]_vars

\* C22: the region findDarkestRegion returns, which init takes as the
\* origin, is the region of a cell of the 6 x 4 sample grid whose average
\* brightness is less than or equal to that of every sampled cell, whatever
\* the brightness values are (ties and an all-white image included).
C22_OriginIsDarkestCell ==
  (calc.fn = "darkest" /\ calc.returned)
    => \E col \in 0..(CONTAINER_SAMPLE_COLS - 1),
          row \in 0..(CONTAINER_SAMPLE_ROWS - 1) :
         /\ calc.region = DarkestRegion(col, row, calc.size.width,
                                        calc.size.height)
         /\ \A c \in SampleCells :
              calc.avg[row * CONTAINER_SAMPLE_COLS + col] <= calc.avg[c]

\* An image whose only darkest cell is the last one sampled, the others
\* being of two brightness values, has been searched.
C22_Witness ==
  /\ calc.fn = "darkest"
  /\ calc.returned
  /\ calc.darkestCol = CONTAINER_SAMPLE_COLS - 1
  /\ calc.darkestRow = CONTAINER_SAMPLE_ROWS - 1
  /\ calc.avg[0] = 255
  /\ \E c \in SampleCells : calc.avg[c] \notin {0, 255}
  /\ \A c \in SampleCells :
       c # CONTAINER_SAMPLE_COLS * CONTAINER_SAMPLE_ROWS - 1
         => calc.avg[c] > calc.darkestBrightness

\* ------------------------------------------------- container clip rectangle
\* containerTransition.init has found the cell (darkestCol, darkestRow) on a
\* canvas of the size initSize, and render is called at the progress
\* k / ProgressDen on a canvas of the size size (the canvas may have been
\* resized since init).
InitClip ==
  /\ NoComponent
  /\ \E darkestCol \in 0..(CONTAINER_SAMPLE_COLS - 1),
        darkestRow \in 0..(CONTAINER_SAMPLE_ROWS - 1),
        initSize \in Viewports, size \in Viewports, k \in 0..ProgressDen :
       calc = [fn |-> "clip", darkestCol |-> darkestCol,
               darkestRow |-> darkestRow, initSize |-> initSize,
               size |-> size, k |-> k, done |-> FALSE,
               state |-> ContainerInit(
                           DarkestRegion(darkestCol, darkestRow,
                                         initSize.width, initSize.height)),
               clip |-> Rect(Num(0), Num(0), Num(0), Num(0))]

\* render computes the rectangle it clips to.
ClipRender ==
  /\ calc.fn = "clip"
  /\ ~calc.done
  /\ calc' = [calc EXCEPT
                !.done = TRUE,
                !.clip = ExpandingRect(calc.size.width, calc.size.height,
                                       calc.k, calc.state)]
  /\ UNCHANGED component

NextClip == ClipRender

SpecClip == InitClip /\ [][NextClip]_vars

\* C23: at progress = 0 the clip rectangle is the origin cell: the cell
\* (darkestCol, darkestRow) of the 6 x 4 grid over the canvas init saw, which
\* is the rectangle of the cell's size centred on the origin; at progress = 1
\* it is (0, 0, width, height) of the canvas render draws on.
C23_ClipRectEnds ==
  (calc.fn = "clip" /\ calc.done)
    => /\ calc.k = 0 =>
            /\ calc.clip
                 = Rect(Frac(calc.darkestCol * calc.initSize.width,
                             CONTAINER_SAMPLE_COLS),
                        Frac(calc.darkestRow * calc.initSize.height,
                             CONTAINER_SAMPLE_ROWS),
                        Frac(calc.initSize.width, CONTAINER_SAMPLE_COLS),
                        Frac(calc.initSize.height, CONTAINER_SAMPLE_ROWS))
            /\ FAdd(FAdd(calc.clip.x, calc.clip.x), calc.clip.w)
                 = FAdd(calc.state.originX, calc.state.originX)
            /\ FAdd(FAdd(calc.clip.y, calc.clip.y), calc.clip.h)
                 = FAdd(calc.state.originY, calc.state.originY)
       /\ calc.k = ProgressDen =>
            calc.clip = Rect(Num(0), Num(0), Num(calc.size.width),
                             Num(calc.size.height))

\* The clip rectangle at progress = 1 for the last cell of the grid, on a
\* canvas resized since init.
C23_Witness ==
  /\ calc.fn = "clip"
  /\ calc.done
  /\ calc.k = ProgressDen
  /\ calc.darkestCol = CONTAINER_SAMPLE_COLS - 1
  /\ calc.darkestRow = CONTAINER_SAMPLE_ROWS - 1
  /\ calc.initSize # calc.size
  /\ calc.clip.w = Num(calc.size.width)

\* ------------------------------------------------------------- cover-fit
\* getCoverFitRect is called for an image and a target of positive sizes.
InitCoverFit ==
  /\ NoComponent
  /\ \E naturalWidth, naturalHeight, width, height \in 1..MaxDim :
       calc = [fn |-> "coverFit",
               image |-> [id |-> 0, naturalWidth |-> naturalWidth,
                          naturalHeight |-> naturalHeight],
               width |-> width, height |-> height, returned |-> FALSE,
               rect |-> Rect(Num(0), Num(0), Num(0), Num(0))]

\* The call returns { sx, sy, sw, sh }.
CoverFit ==
  /\ calc.fn = "coverFit"
  /\ ~calc.returned
  /\ calc' = [calc EXCEPT
                !.returned = TRUE,
                !.rect = getCoverFitRect(calc.image, calc.width, calc.height)]
  /\ UNCHANGED component

NextCoverFit == CoverFit

SpecCoverFit == InitCoverFit /\ [][NextCoverFit]_vars

\* C24: for every positive image size and target size the source rectangle
\* has the aspect ratio of the target (sw * height = sh * width), and it is
\* cropped along one axis at most: an image wider than the target keeps its
\* full height, an image taller than the target keeps its full width, and an
\* image of the target's aspect ratio is taken whole.
C24_CoverFitAspect ==
  (calc.fn = "coverFit" /\ calc.returned)
    => LET r == calc.rect
           nw == calc.image.naturalWidth
           nh == calc.image.naturalHeight
       IN /\ FMul(r.w, Num(calc.height)) = FMul(r.h, Num(calc.width))
          /\ r.w = Num(nw) \/ r.h = Num(nh)
          /\ nw * calc.height > nh * calc.width
               => (r.h = Num(nh) /\ FLess(r.w, Num(nw)))
          /\ nw * calc.height < nh * calc.width
               => (r.w = Num(nw) /\ FLess(r.h, Num(nh)))
          /\ nw * calc.height = nh * calc.width
               => (r.w = Num(nw) /\ r.h = Num(nh))

\* An image wider than the target was cropped to a width that is not a
\* whole number.
C24_Witness ==
  /\ calc.fn = "coverFit"
  /\ calc.returned
  /\ calc.image.naturalWidth * calc.height
       > calc.image.naturalHeight * calc.width
  /\ FLess(calc.rect.w, Num(calc.image.naturalWidth))
  /\ calc.rect.w[2] > 1
  /\ calc.rect.h = Num(calc.image.naturalHeight)

Stem(key) == (key + 1) \div 2

\* finalOutputPaths.get(key) for the files 1..n: images/<shard>/<base>.jpg,
\* or <base>-<hash>.jpg when the first-pass path is shared (the 8-character
\* hash suffixes of different keys are taken to differ).
FinalOutputPath(key, n) ==
  IF \E other \in 1..n : other # key /\ Stem(other) = Stem(key)
  THEN <<Stem(key), key>>
  ELSE <<Stem(key), 0>>

\* fs.statSync(sourcePath) of a source file: the files do not change.
StatSync(key) == [size |-> 100 + key, mtimeMs |-> 2]

\* No entry of the manifest for a key (manifest.entries[key] is undefined).
NoEntry == [outputPath |-> <<0, 0>>, sourceSize |-> 0, sourceMtimeMs |-> 0]

\* Mutant of ManifestEntry: the modification time is not recorded.
ManifestEntryWithoutMtime(outputRelPath, stats) ==
  [outputPath |-> outputRelPath, sourceSize |-> stats.size,
   sourceMtimeMs |-> 0]

\* The entry processFile writes after a conversion.
ManifestEntry(outputRelPath, stats) ==
  [outputPath |-> outputRelPath, sourceSize |-> stats.size,
   sourceMtimeMs |-> stats.mtimeMs]

\* The test of processFile for skipping a file.
CanSkip(existing, stats, outputRelPath, outputs) ==
  /\ existing # NoEntry
  /\ existing.sourceSize = stats.size
  /\ existing.sourceMtimeMs = stats.mtimeMs
  /\ existing.outputPath = outputRelPath
  /\ outputRelPath \in outputs

\* What earlier runs left for a file: nothing ("new"), an export that is up
\* to date ("done"), an export of an older version of the source
\* ("modified"), or a manifest entry whose output file is gone ("lost").
Earlier == {"new", "done", "modified", "lost"}

ResultZero == [scanned |-> 0, exported |-> 0, skipped |-> 0, failed |-> 0]

\* Before the first of two runs of exportTabletLibrary: n source files, each
\* of which sharp can convert or cannot (a property of the file), the
\* manifest file and the output files earlier runs left, and the concurrency
\* option.
InitExport ==
  /\ NoComponent
  /\ \E n \in 0..MaxFiles, concurrency \in {1, 6} :
       \E convertible \in [1..n -> BOOLEAN], earlier \in [1..n -> Earlier] :
         calc = [fn |-> "export", n |-> n, convertible |-> convertible,
                 concurrency |-> concurrency,
                 saved |-> [key \in 1..n
                              |-> CASE earlier[key] = "new" -> NoEntry
                                    [] earlier[key] = "modified" ->
                                         [ManifestEntry(
                                            FinalOutputPath(key, n),
                                            StatSync(key))
                                          EXCEPT !.sourceMtimeMs = 1]
                                    [] OTHER ->
                                         ManifestEntry(FinalOutputPath(key, n),
                                                       StatSync(key))],
                 outputs |-> {FinalOutputPath(key, n) :
                                key \in {k \in 1..n :
                                           earlier[k] \in {"done",
                                                           "modified"}}},
                 manifest |-> [key \in 1..n |-> NoEntry],
                 run |-> 0, phase |-> "idle", next |-> 1, active |-> {},
                 result |-> ResultZero, errors |-> <<>>,
                 exportedKeys |-> {},
                 skippedKeys |-> {}, exported1 |-> {},
                 entries1 |-> [key \in 1..n |-> NoEntry]]

\* exportTabletLibrary is called (for the second time with the sources and
\* the outputs as the first run left them): the manifest is loaded, the files
\* are scanned and the output paths computed.  With no PNG file it returns at
\* once.
ExportStart ==
  /\ calc.fn = "export"
  /\ calc.phase = "idle"
  /\ calc.run < 2
  /\ calc' = [calc EXCEPT
                !.run = calc.run + 1,
                !.phase = IF calc.n = 0 THEN "idle" ELSE "processing",
                !.manifest = calc.saved,
                !.result = [ResultZero EXCEPT !.scanned = calc.n],
                !.errors = <<>>,
                !.next = 1,
                !.exportedKeys = {},
                !.skippedKeys = {},
                !.exported1 = IF calc.run = 1 THEN calc.exportedKeys ELSE @,
                !.entries1 = IF calc.run = 1 THEN calc.saved ELSE @]
  /\ UNCHANGED component

\* The limiter runs processFile for the next file: it is skipped, or its
\* conversion starts (await sharp(...).toFile(...)).
ProcessFile ==
  /\ calc.fn = "export"
  /\ calc.phase = "processing"
  /\ calc.next <= calc.n
  /\ Cardinality(calc.active) < calc.concurrency
  /\ LET key == calc.next
         outputRelPath == FinalOutputPath(key, calc.n)
     IN calc' = IF CanSkip(calc.manifest[key], StatSync(key), outputRelPath,
                           calc.outputs)
                THEN [calc EXCEPT !.next = key + 1,
                                  !.result.skipped = @ + 1,
                                  !.skippedKeys = @ \cup {key}]
                ELSE [calc EXCEPT !.next = key + 1,
                                  !.active = @ \cup {key}]
  /\ UNCHANGED component

\* Mutant of RecordFailure: the manifest entry of the failed file is
\* dropped.
RecordFailureDroppingEntry(c, key) ==
  [c EXCEPT !.result.failed = @ + 1,
            !.errors = Append(@, key),
            !.manifest[key] = NoEntry]

\* The catch block of processFile: result.failed++ and
\* result.errors.push({ file: key, error }).
RecordFailure(c, key) ==
  [c EXCEPT !.result.failed = @ + 1, !.errors = Append(@, key)]

\* A conversion ends: the output file is written and the manifest entry
\* set, or sharp has thrown and the file is counted as failed.
ConvertDone ==
  /\ calc.fn = "export"
  /\ calc.phase = "processing"
  /\ \E key \in calc.active :
       LET outputRelPath == FinalOutputPath(key, calc.n)
       IN calc' = IF calc.convertible[key]
                  THEN [calc EXCEPT
                          !.active = @ \ {key},
                          !.outputs = @ \cup {outputRelPath},
                          !.manifest[key] = ManifestEntry(outputRelPath,
                                                          StatSync(key)),
                          !.result.exported = @ + 1,
                          !.exportedKeys = @ \cup {key}]
                  ELSE RecordFailure([calc EXCEPT !.active = @ \ {key}],
                                     key)
  /\ UNCHANGED component

\* Promise.all has resolved: the manifest is saved and the result returned.
ExportFinish ==
  /\ calc.fn = "export"
  /\ calc.phase = "processing"
  /\ calc.next > calc.n
  /\ calc.active = {}
  /\ calc' = [calc EXCEPT !.phase = "idle", !.saved = calc.manifest]
  /\ UNCHANGED component

NextExport == ExportStart \/ ProcessFile \/ ConvertDone \/ ExportFinish

SpecExport == InitExport /\ [][NextExport]_vars

FailedKeys == {calc.errors[k] : k \in 1..Len(calc.errors)}

\* C35: a conversion failure of one file is recorded in the failed count and
\* in the errors list and leaves that file's manifest entry as it was; a
\* manifest entry is written only after a successful conversion; the other
\* files are processed all the same, so that at the end of a run every
\* scanned file is counted in exactly one of exported, skipped and failed.
C35_ExportFailureIsolated ==
  (calc.fn = "export" /\ calc.run >= 1)
    => /\ Len(calc.errors) = calc.result.failed
       /\ Cardinality(FailedKeys) = calc.result.failed
       /\ \A key \in FailedKeys :
            ~calc.convertible[key] /\ calc.manifest[key] = calc.saved[key]
       /\ calc.phase = "processing"
            => \A key \in 1..calc.n :
                 calc.manifest[key] # calc.saved[key]
                   => key \in calc.exportedKeys
       /\ \A key \in calc.exportedKeys :
            /\ calc.convertible[key]
            /\ calc.manifest[key]
                 = ManifestEntry(FinalOutputPath(key, calc.n), StatSync(key))
       /\ calc.phase = "idle"
            => /\ calc.result.scanned = calc.n
               /\ calc.result.exported + calc.result.skipped
                    + calc.result.failed = calc.result.scanned
               /\ calc.result.exported = Cardinality(calc.exportedKeys)
               /\ calc.result.skipped = Cardinality(calc.skippedKeys)
               /\ calc.exportedKeys \cup calc.skippedKeys \cup FailedKeys
                    = 1..calc.n
               /\ calc.exportedKeys \cap calc.skippedKeys = {}
               /\ calc.exportedKeys \cap FailedKeys = {}
               /\ calc.skippedKeys \cap FailedKeys = {}

\* A first run has ended in which a file failed whose older export is still
\* in the manifest, after which another file was exported, and a third one
\* was skipped.
C35_Witness ==
  /\ calc.fn = "export"
  /\ calc.run = 1
  /\ calc.phase = "idle"
  /\ \E key \in FailedKeys :
       /\ calc.saved[key] # NoEntry
       /\ \E other \in calc.exportedKeys : other > key
  /\ calc.skippedKeys # {}

\* ------------------------------------------ createLimiter (export-tablet.ts)
\* The tasks given to one limiter are numbered 1, 2, ... in the order of the
\* calls of the function createLimiter returns.  active and queue are the
\* variables of the closure; running holds the tasks whose run is at
\* `await fn()`, started the order in which the runs began.

\* The concurrency option: a narrow limiter and the default of 6.
Concurrencies == {1, 2, 6}

\* Mutant of RunTask: the run does not count itself.
RunTaskUncounted(c, t) ==
  [c EXCEPT !.running = @ \cup {t}, !.started = Append(@, t)]

\* run() up to its await: active++ and the call of fn.
RunTask(c, t) ==
  [c EXCEPT !.active = @ + 1,
            !.running = @ \cup {t},
            !.started = Append(@, t)]

\* Mutant of NextQueued: the newest entry of the queue is taken.
NextQueuedNewestFirst(c) ==
  IF Len(c.queue) > 0 /\ c.active < c.concurrency
  THEN RunTask([c EXCEPT !.queue = SubSeq(@, 1, Len(@) - 1)],
               c.queue[Len(c.queue)])
  ELSE c

\* next(): the oldest entry of the queue is run when a slot is free.
NextQueued(c) ==
  IF Len(c.queue) > 0 /\ c.active < c.concurrency
  THEN RunTask([c EXCEPT !.queue = Tail(@)], Head(c.queue))
  ELSE c

\* A limiter of some concurrency, and the number of tasks its user will
\* submit.
InitLimiter ==
  /\ NoComponent
  /\ \E n \in 0..MaxTasks, concurrency \in Concurrencies :
       calc = [fn |-> "limiter", n |-> n, concurrency |-> concurrency,
               submitted |-> 0, active |-> 0, queue |-> <<>>,
               running |-> {}, started |-> <<>>, resolved |-> {},
               rejected |-> {}]

\* limit(fn) is called: the task runs at once when a slot is free, else its
\* run is pushed onto the queue.
Limit ==
  /\ calc.fn = "limiter"
  /\ calc.submitted < calc.n
  /\ LET t == calc.submitted + 1
         c == [calc EXCEPT !.submitted = t]
     IN calc' = IF calc.active < calc.concurrency
                THEN RunTask(c, t)
                ELSE [c EXCEPT !.queue = Append(@, t)]
  /\ UNCHANGED component

\* The promise of a running task settles: run resolves or rejects the
\* promise limit returned, and its finally block does active-- and next().
Settle ==
  /\ calc.fn = "limiter"
  /\ \E t \in calc.running, ok \in BOOLEAN :
       calc' = NextQueued(
                 [calc EXCEPT !.running = @ \ {t},
                              !.active = @ - 1,
                              !.resolved = IF ok THEN @ \cup {t} ELSE @,
                              !.rejected = IF ok THEN @ ELSE @ \cup {t}])
  /\ UNCHANGED component

NextLimiter == Limit \/ Settle

SpecLimiter == InitLimiter /\ [][NextLimiter]_vars

\* Running tasks terminate.
LiveSpecLimiter == SpecLimiter /\ WF_vars(Settle)

\* C33: at every moment the number of tasks running inside the limiter is at
\* most the configured concurrency, for every number of submitted tasks and
\* every order in which tasks complete or fail.
C33_LimiterBound ==
  calc.fn = "limiter"
    => /\ Cardinality(calc.running) <= calc.concurrency
       /\ calc.active <= calc.concurrency

\* The limiter is full with a task waiting, after one task has failed and
\* one has completed.
C33_Witness ==
  /\ calc.fn = "limiter"
  /\ Cardinality(calc.running) = calc.concurrency
  /\ calc.queue # <<>>
  /\ calc.rejected # {}
  /\ calc.resolved # {}

\* C34: every task submitted to the limiter is eventually started, running
\* tasks terminating by success or by rejection; the tasks start in the
\* order of their submission; and once all submitted tasks have finished
\* the queue is empty and the active count is 0.
C34_LimiterProgress ==
  /\ [](calc.fn = "limiter"
          => /\ \A k \in 1..Len(calc.started) : calc.started[k] = k
             /\ (calc.resolved \cup calc.rejected = 1..calc.submitted)
                  => (calc.queue = <<>> /\ calc.active = 0))
  /\ \A t \in 1..MaxTasks :
       (calc.fn = "limiter" /\ calc.submitted >= t)
         ~> (calc.fn = "limiter" /\ t <= Len(calc.started))

\* All the tasks have finished, the last of which had waited in the queue
\* behind another one while a task failed.
C34_Witness ==
  /\ calc.fn = "limiter"
  /\ calc.n = MaxTasks
  /\ calc.concurrency < MaxTasks - 1
  /\ calc.resolved \cup calc.rejected = 1..MaxTasks
  /\ calc.rejected # {}
  /\ calc.queue = <<>>
  /\ calc.active = 0
  /\ Len(calc.started) = MaxTasks

\* ------------------------------------------------------ R2 upload (upload-r2)
\* No entry of the upload manifest for a key.
NoUpload == [size |-> 0]

\* The sizes a local image file can have.
FileSizes == {1, 2}

\* The entry main writes after a successful upload (r2Key and localPath
\* follow from the key; uploadedAt is not read).
UploadEntry(size) == [size |-> size]

\* The test of main for skipping an image: an entry exists and
\* existing.size === stats.size.
AlreadyUploaded(existing, size) ==
  existing # NoUpload /\ existing.size = size

UploadZero == [scanned |-> 0, uploaded |-> 0, skipped |-> 0, failed |-> 0]

\* Before a run of the upload script: n image files with their sizes, and
\* the manifest file earlier runs left (an entry or none for each R2 key).
InitUpload ==
  /\ NoComponent
  /\ \E n \in 0..MaxFiles :
       \E size \in [1..n -> FileSizes],
          saved \in [1..n -> {NoUpload} \cup {UploadEntry(s) : s \in FileSizes}] :
         calc = [fn |-> "upload", n |-> n, size |-> size, saved |-> saved,
                 start |-> saved, manifest |-> saved, phase |-> "idle",
                 next |-> 1, result |-> UploadZero, uploadedKeys |-> {}]

\* main starts: the manifest is loaded and the images are scanned; with no
\* image it returns.
UploadStart ==
  /\ calc.fn = "upload"
  /\ calc.phase = "idle"
  /\ calc' = [calc EXCEPT
                !.phase = IF calc.n = 0 THEN "done" ELSE "uploading",
                !.manifest = calc.saved,
                !.start = calc.saved,
                !.result = [UploadZero EXCEPT !.scanned = calc.n]]
  /\ UNCHANGED component

\* One iteration of the loop over imageFiles: the image is skipped, or
\* uploadToR2 is called and succeeds or fails; after an attempt the manifest
\* is saved when result.uploaded % 10 === 0.
UploadFile ==
  /\ calc.fn = "upload"
  /\ calc.phase = "uploading"
  /\ calc.next <= calc.n
  /\ LET r2Key == calc.next
     IN IF AlreadyUploaded(calc.manifest[r2Key], calc.size[r2Key])
        THEN calc' = [calc EXCEPT !.next = r2Key + 1,
                                  !.result.skipped = @ + 1]
        ELSE \E success \in BOOLEAN :
               LET attempted ==
                     IF success
                     THEN [calc EXCEPT
                             !.next = r2Key + 1,
                             !.manifest[r2Key] = UploadEntry(calc.size[r2Key]),
                             !.result.uploaded = @ + 1,
                             !.uploadedKeys = @ \cup {r2Key}]
                     ELSE [calc EXCEPT !.next = r2Key + 1,
                                       !.result.failed = @ + 1]
               IN calc' = IF attempted.result.uploaded % 10 = 0
                          THEN [attempted EXCEPT !.saved = attempted.manifest]
                          ELSE attempted
  /\ UNCHANGED component

\* The loop has ended: the final save.
UploadFinish ==
  /\ calc.fn = "upload"
  /\ calc.phase = "uploading"
  /\ calc.next > calc.n
  /\ calc' = [calc EXCEPT !.phase = "done", !.saved = calc.manifest]
  /\ UNCHANGED component

NextUpload == UploadStart \/ UploadFile \/ UploadFinish

SpecUpload == InitUpload /\ [][NextUpload]_vars

\* C27: an image whose R2 key has an entry in the manifest at the start of a
\* run is not uploaded by that run: the images a run uploads are images with
\* no entry at its start.
C27_ManifestedNotUploaded ==
  calc.fn = "upload"
    => \A r2Key \in calc.uploadedKeys : calc.start[r2Key] = NoUpload

\* ------------------------------------ image generator (generate-brutalism.ts)
\* The generator is invoked as the pipeline invokes it, with --count=<count>
\* (process.argv holds neither --test nor --seed): the files
\* brutalism_<i>.png of existing are in public/brutalism, and the manifest
\* lists them or was lost.  i is the loop variable of main.
\* Entries of manifest.images (listed, in the operators below): the public
\* path of image i, and the R2 URL the pipeline's updateManifestWithR2Urls
\* writes for it.
PublicPath(i) == i
R2Url(i) == 0 - i

\* The entries for the images of a set, in rising order of the image number.
RECURSIVE Listing(_, _)
Listing(S, url) ==
  IF S = {} THEN <<>>
  ELSE LET i == CHOOSE i \in S : \A o \in S : i <= o
       IN <<IF url THEN R2Url(i) ELSE PublicPath(i)>>
            \o Listing(S \ {i}, url)

\* manifest.images.includes(publicPath)
Includes(listed, publicPath) ==
  \E k \in 1..Len(listed) : listed[k] = publicPath

\* The states earlier runs leave: the image files of existing, and a
\* manifest that lists some of them (all of them after complete runs, fewer
\* after an interrupted run or a lost manifest), or that the pipeline has
\* rewritten with the R2 URLs of the images.
InitGenerate ==
  /\ NoComponent
  /\ \E count \in 1..MaxCount, existing \in SUBSET (1..TargetImages) :
       \E manifest \in {Listing(listed, FALSE) : listed \in SUBSET existing}
                         \cup {Listing(existing, TRUE)} :
         calc = [fn |-> "generate", count |-> count, existing |-> existing,
                 files |-> existing, manifest |-> manifest,
                 writes |-> [f \in 1..TargetImages |-> 0],
                 run |-> 1, i |-> 1, skipped |-> 0, generated |-> 0,
                 failed |-> 0, done |-> FALSE]

\* Mutant of ListExisting: the path is pushed without the includes test.
ListExistingAgain(listed, publicPath) == Append(listed, publicPath)

\* The skip branch's update of manifest.images.
ListExisting(listed, publicPath) ==
  IF Includes(listed, publicPath) THEN listed ELSE Append(listed, publicPath)

\* An iteration for a file that exists: it is added to the manifest if it
\* is not listed, and skipped.
GenerateSkip ==
  /\ calc.fn = "generate"
  /\ calc.i <= TargetImages
  /\ calc.i \in calc.files
  /\ calc' = [calc EXCEPT !.manifest = ListExisting(@, PublicPath(calc.i)),
                          !.skipped = @ + 1,
                          !.i = @ + 1]
  /\ UNCHANGED component

\* An iteration for a file that does not exist: buildPrompt and
\* generateImage succeed and the file is written and listed, or one of them
\* throws and the loop continues.
GenerateOne ==
  /\ calc.fn = "generate"
  /\ calc.i <= TargetImages
  /\ calc.i \notin calc.files
  /\ \E success \in BOOLEAN :
       calc' = IF success
               THEN [calc EXCEPT !.files = @ \cup {calc.i},
                                 !.writes[calc.i] = @ + 1,
                                 !.manifest = Append(@, PublicPath(calc.i)),
                                 !.generated = @ + 1,
                                 !.i = @ + 1]
               ELSE [calc EXCEPT !.failed = @ + 1, !.i = @ + 1]
  /\ UNCHANGED component

\* The loop has ended and the summary is printed.
GenerateDone ==
  /\ calc.fn = "generate"
  /\ calc.i > TargetImages
  /\ ~calc.done
  /\ calc' = [calc EXCEPT !.done = TRUE]
  /\ UNCHANGED component

\* The generator is run again on what the run before left.
GenerateAgain ==
  /\ calc.fn = "generate"
  /\ calc.done
  /\ calc.run < MaxRuns
  /\ calc' = [calc EXCEPT !.run = @ + 1, !.existing = calc.files,
                          !.i = 1, !.skipped = 0, !.generated = 0,
                          !.failed = 0, !.done = FALSE]
  /\ UNCHANGED component

NextGenerate ==
  GenerateSkip \/ GenerateOne \/ GenerateDone \/ GenerateAgain

SpecGenerate == InitGenerate /\ [][NextGenerate]_vars

\* C28: invoked with a count N, a run in which no generation fails writes
\* exactly N new images, whatever images exist, and each new image is
\* numbered after every image that existed.
C28_GeneratesCountNewImages ==
  (calc.fn = "generate" /\ calc.done /\ calc.failed = 0)
    => /\ calc.generated = calc.count
       /\ Cardinality(calc.files \ calc.existing) = calc.count
       /\ \A new \in calc.files \ calc.existing :
            \A old \in calc.existing : new > old

\* C36: over any sequence of generator runs an image whose file exists is
\* never regenerated or overwritten (no file that existed before the runs is
\* written, and no file is written twice), every image file present after a
\* run is listed in the manifest, and no path is listed in the manifest more
\* than once.
C36_IncrementalGeneration ==
  calc.fn = "generate"
    => /\ \A f \in 1..TargetImages :
            /\ calc.writes[f] <= 1
            /\ (f \in calc.existing /\ calc.run = 1) => calc.writes[f] = 0
            /\ (calc.writes[f] = 1) => f \in calc.files
       /\ calc.done
            => \A f \in calc.files : Includes(calc.manifest, PublicPath(f))
       /\ \A k, l \in 1..Len(calc.manifest) :
            calc.manifest[k] = calc.manifest[l] => k = l

\* A second run has ended that generated an image the first run had not
\* written and skipped both an image the first run had generated and one
\* that existed before the runs; the manifest lists every file once.
C36_Witness ==
  /\ calc.fn = "generate"
  /\ calc.run = 2
  /\ calc.done
  /\ calc.generated >= 1
  /\ calc.skipped >= 2
  /\ \E f \in calc.files : calc.writes[f] = 0
  /\ \E f \in calc.existing : calc.writes[f] = 1
  /\ \E f \in calc.files \ calc.existing : calc.writes[f] = 1
  /\ Len(calc.manifest) = Cardinality(calc.files)

\* ------------------------------------------ seeded prompts (buildPrompt, geo)
\* mulberry32 with its 32-bit state scaled down to RngMod values: every call
\* adds a constant to the state and returns a scrambling of it, as a
\* numerator over RngMod.  makeRng(MASTER_SEED, `img:<index>`) with a
\* non-empty MASTER_SEED starts it at seedToUint32 of the two strings.
RngMod == 64
Advance(seed) == (seed + 37) % RngMod
Output(seed) == (seed * 29 + 11) % RngMod

\* The state after k calls of rng().
Adv(seed, k) == (seed + 37 * k) % RngMod

\* randomChoice(arr, rng) for an array of len elements, the generator being
\* in the state seed: the index Math.floor(rng() * arr.length).
randomChoice(len, seed) == (Output(Advance(seed)) * len) \div RngMod

\* chance(num / den, rng)
chance(num, den, seed) == Output(Advance(seed)) * den < num * RngMod

\* The lengths of the vocabulary arrays.
Vocabulary ==
  [BUILDING_TYPES |-> 25, LIGHTING_CONDITIONS |-> 13,
   STYLISTIC_ELEMENTS |-> 18, MASSING_ARCHETYPES |-> 10,
   CONCRETE_EXPRESSIONS |-> 8, FENESTRATION_PATTERNS |-> 8, CONTEXTS |-> 12,
   CAMERA_ANGLES |-> 9, REGIONAL_STYLES |-> 9, CONDITIONS |-> 7,
   PHOTO_STYLES |-> 8, MUTATIONS |-> 6, URBAN_SEEDS |-> 24]

\* The loop of randomChoices: copy is the array (indexed from 0), i the loop
\* variable, seed the state of the generator.
RECURSIVE ShuffleCopy(_, _, _)
ShuffleCopy(copy, i, seed) ==
  IF i <= 0 THEN copy
  ELSE ShuffleCopy(Swap(copy, i, randomChoice(i + 1, seed)), i - 1,
                   Advance(seed))

\* randomChoices(arr, count, rng) for an array of len elements
randomChoices(len, count, seed) ==
  LET copy == ShuffleCopy([c \in 0..(len - 1) |-> c], len - 1, seed)
  IN [c \in 1..(IF count < len THEN count ELSE len) |-> copy[c - 1]]

\* An optional element: chance(num / den, rng) ? randomChoice(arr, rng) : null.
\* st holds the state of the generator and the parts chosen so far.
Optional(st, name, num, den, len) ==
  IF chance(num, den, st.seed)
  THEN [seed |-> Adv(st.seed, 2),
        parts |-> Append(st.parts, <<name, randomChoice(len,
                                                        Advance(st.seed))>>)]
  ELSE [seed |-> Advance(st.seed), parts |-> st.parts]

\* buildPrompt down to the call of generateEnvironmentCue: the elements
\* drawn (each as its index in its array) and the state of the generator.
CoreElements(seed) ==
  LET styles == randomChoices(Vocabulary.STYLISTIC_ELEMENTS, 2, Adv(seed, 7))
      drawn == [seed |-> Adv(seed, 7 + Vocabulary.STYLISTIC_ELEMENTS),
                parts |->
                  << <<"building", randomChoice(Vocabulary.BUILDING_TYPES,
                                                seed)>>,
                     <<"lighting",
                       randomChoice(Vocabulary.LIGHTING_CONDITIONS,
                                    Adv(seed, 1))>>,
                     <<"massing", randomChoice(Vocabulary.MASSING_ARCHETYPES,
                                               Adv(seed, 2))>>,
                     <<"concrete",
                       randomChoice(Vocabulary.CONCRETE_EXPRESSIONS,
                                    Adv(seed, 3))>>,
                     <<"fenestration",
                       randomChoice(Vocabulary.FENESTRATION_PATTERNS,
                                    Adv(seed, 4))>>,
                     <<"context", randomChoice(Vocabulary.CONTEXTS,
                                               Adv(seed, 5))>>,
                     <<"camera", randomChoice(Vocabulary.CAMERA_ANGLES,
                                              Adv(seed, 6))>>,
                     <<"style", styles[1]>>, <<"style", styles[2]>>,
                     <<"photoStyle",
                       randomChoice(Vocabulary.PHOTO_STYLES,
                                    Adv(seed, 6 + Vocabulary.STYLISTIC_ELEMENTS))>>
                  >>]
      regional == Optional(drawn, "regional", 2, 5,
                           Vocabulary.REGIONAL_STYLES)
      condition == Optional(regional, "condition", 1, 2,
                            Vocabulary.CONDITIONS)
      mutation == Optional(condition, "mutation", 1, 10, Vocabulary.MUTATIONS)
  IN IF chance(1, 4, mutation.seed)
     THEN [seed |-> Advance(mutation.seed),
           parts |-> Append(mutation.parts, <<"scaleCue", 0>>)]
     ELSE [seed |-> Advance(mutation.seed), parts |-> mutation.parts]

\* pickGeoMode(rng): NONE 35%, ANYWHERE 20%, LAND 30%, URBAN 15%
pickGeoMode(seed) ==
  LET r == Output(Advance(seed))
  IN IF r * 100 < 35 * RngMod THEN "NONE"
     ELSE IF r * 100 < 55 * RngMod THEN "ANYWHERE"
     ELSE IF r * 100 < 85 * RngMod THEN "LAND"
     ELSE "URBAN"

\* sampleAnyCoords(rng): latitude and longitude, each a function of one call
\* of rng(), held as the values drawn.
sampleAnyCoords(seed) == <<0, Output(Advance(seed)), Output(Adv(seed, 2))>>

\* sampleUrbanCoords(rng): the urban seed and the two jitters.
sampleUrbanCoords(seed) ==
  <<1 + randomChoice(Vocabulary.URBAN_SEEDS, seed), Output(Adv(seed, 2)),
    Output(Adv(seed, 3))>>

\* The texts the environment text service can return; "" stands for an
\* empty answer or a failed call.
EnvTexts == {"", "arid plateau", "humid coast"}

\* MAX_ATTEMPTS of sampleCoordsByMode
MAX_ATTEMPTS == 8

\* The state of the generator when generateEnvironmentCue samples the
\* coordinates, and the coordinates it samples first.
SamplingSeed(seed) == Advance(CoreElements(seed).seed)

FirstCoords(seed) ==
  IF pickGeoMode(CoreElements(seed).seed) = "URBAN"
  THEN sampleUrbanCoords(SamplingSeed(seed))
  ELSE sampleAnyCoords(SamplingSeed(seed))

NoCue == ""

\* buildPrompt is to be called twice for one image index with one non-empty
\* MASTER_SEED: seed0 is the state makeRng starts the generator in.  The geo
\* cache is empty or holds, from the generation of earlier images, the
\* coordinates sampled first.
InitPrompt ==
  /\ NoComponent
  /\ \E seed0 \in 0..(RngMod - 1), cached \in BOOLEAN :
       calc = [fn |-> "prompt", seed0 |-> seed0, run |-> 1,
               stage |-> "start", seed |-> seed0, parts |-> <<>>,
               mode |-> "NONE", attempt |-> 0, coords |-> <<0, 0, 0>>,
               geoCache |-> IF cached
                            THEN {<<FirstCoords(seed0), "temperate plain">>}
                            ELSE {},
               prompts |-> <<>>]

\* The prompt buildPrompt returns: the elements and the environment cue.
Assemble(parts, cue) == [parts |-> parts, cue |-> cue]

\* buildPrompt runs to the sampling of the coordinates: the elements are
\* drawn and generateEnvironmentCue picks the mode.  With NONE it returns
\* null and the prompt is assembled.
PromptStart ==
  /\ calc.fn = "prompt"
  /\ calc.stage = "start"
  /\ LET core == CoreElements(calc.seed0)
         mode == pickGeoMode(core.seed)
         seed == Advance(core.seed)
     IN calc' =
          CASE mode = "NONE" ->
                 [calc EXCEPT !.stage = "done", !.seed = seed,
                              !.parts = core.parts, !.mode = mode,
                              !.prompts = Append(@, Assemble(core.parts,
                                                             NoCue))]
            [] mode = "URBAN" ->
                 [calc EXCEPT !.stage = "lookup", !.seed = Adv(seed, 3),
                              !.parts = core.parts, !.mode = mode,
                              !.coords = sampleUrbanCoords(seed)]
            [] mode = "ANYWHERE" ->
                 [calc EXCEPT !.stage = "lookup", !.seed = Adv(seed, 2),
                              !.parts = core.parts, !.mode = mode,
                              !.coords = sampleAnyCoords(seed)]
            [] mode = "LAND" ->
                 [calc EXCEPT !.stage = "land", !.seed = seed,
                              !.parts = core.parts, !.mode = mode,
                              !.attempt = 0]
  /\ UNCHANGED component

\* One attempt of the LAND loop: the point is on land, is not, or the
\* geocoding service fails.
LandAttempt ==
  /\ calc.fn = "prompt"
  /\ calc.stage = "land"
  /\ calc.attempt < MAX_ATTEMPTS
  /\ \E reverse \in {"land", "water", "error"} :
       calc' = IF reverse = "land"
               THEN [calc EXCEPT !.stage = "lookup",
                                 !.seed = Adv(calc.seed, 2),
                                 !.coords = sampleAnyCoords(calc.seed)]
               ELSE [calc EXCEPT !.seed = Adv(calc.seed, 2),
                                 !.attempt = @ + 1]
  /\ UNCHANGED component

\* No attempt hit land: random coordinates are used, in the mode ANYWHERE.
LandFallback ==
  /\ calc.fn = "prompt"
  /\ calc.stage = "land"
  /\ calc.attempt >= MAX_ATTEMPTS
  /\ calc' = [calc EXCEPT !.stage = "lookup", !.seed = Adv(calc.seed, 2),
                          !.mode = "ANYWHERE",
                          !.coords = sampleAnyCoords(calc.seed)]
  /\ UNCHANGED component

\* generateEnvironmentCue from the cache lookup on: a cached text is used;
\* otherwise the point is geocoded and the text service asked (a failure of
\* the first, or an empty answer of the second, gives no cue), and a text
\* obtained is cached.  buildPrompt then assembles the prompt.
EnvironmentCue ==
  /\ calc.fn = "prompt"
  /\ calc.stage = "lookup"
  /\ IF \E entry \in calc.geoCache : entry[1] = calc.coords
     THEN LET entry == CHOOSE e \in calc.geoCache : e[1] = calc.coords
          IN calc' = [calc EXCEPT
                        !.stage = "done",
                        !.prompts = Append(@, Assemble(calc.parts, entry[2]))]
     ELSE \E reverse \in {"ok", "error"}, envText \in EnvTexts :
            calc' = IF reverse = "error"
                    THEN [calc EXCEPT
                            !.stage = "done",
                            !.prompts = Append(@, Assemble(calc.parts, NoCue))]
                    ELSE [calc EXCEPT
                            !.stage = "done",
                            !.seed = Advance(calc.seed),
                            !.geoCache = IF envText = "" THEN @
                                         ELSE @ \cup {<<calc.coords, envText>>},
                            !.prompts = Append(@, Assemble(calc.parts,
                                                           envText))]
  /\ UNCHANGED component

\* buildPrompt is called again with the same MASTER_SEED and image index.
PromptAgain ==
  /\ calc.fn = "prompt"
  /\ calc.stage = "done"
  /\ calc.run = 1
  /\ calc' = [calc EXCEPT !.run = 2, !.stage = "start", !.seed = calc.seed0,
                          !.parts = <<>>, !.attempt = 0]
  /\ UNCHANGED component

NextPrompt ==
  PromptStart \/ LandAttempt \/ LandFallback \/ EnvironmentCue \/ PromptAgain

SpecPrompt == InitPrompt /\ [][NextPrompt]_vars

\* C29: with one non-empty MASTER_SEED, two runs of buildPrompt for one
\* image index return the same prompt, whatever the geo cache holds and the
\* geocoding and text services return.
C29_SeededPromptReproducible ==
  (calc.fn = "prompt" /\ Len(calc.prompts) = 2)
    => calc.prompts[1] = calc.prompts[2]

\* ------------------------------------------------ what a bitmap displays
\* The point (x, y) lies in the rectangle r (left and top edges included).
InRect(x, y, r) ==
  /\ ~FLess(x, r.x)
  /\ FLess(x, FAdd(r.x, r.w))
  /\ ~FLess(y, r.y)
  /\ FLess(y, FAdd(r.y, r.h))

\* The point of the source that drawImage maps to the point (x, y) of the
\* destination rectangle of layer.
SourcePoint(layer, x, y) ==
  <<FAdd(layer.s.x, FDiv(FMul(FSub(x, layer.d.x), layer.s.w), layer.d.w)),
    FAdd(layer.s.y, FDiv(FMul(FSub(y, layer.d.y), layer.s.h), layer.d.h))>>

\* The draw of layer paints the point (x, y): it lies in the destination
\* rectangle and in the clip regions, and its source point lies in the
\* source (drawImage clips the source rectangle to the source).
Paints(layer, x, y) ==
  /\ InRect(x, y, layer.d)
  /\ \A c \in 1..Len(layer.clip) : InRect(x, y, layer.clip[c])
  /\ LET p == SourcePoint(layer, x, y)
     IN InRect(p[1], p[2],
               Rect(Num(0), Num(0), Num(layer.src.width),
                    Num(layer.src.height)))

\* What the bitmap made of the draws content displays at the point (x, y):
\* a point of an image, a blend where the topmost draw is translucent, or
\* nothing.
RECURSIVE PointShows(_, _, _)
PointShows(content, x, y) ==
  LET painting == {j \in 1..Len(content) : Paints(content[j], x, y)}
  IN IF painting = {} THEN [kind |-> "blank"]
     ELSE LET top == content[CHOOSE j \in painting :
                               \A i \in painting : i <= j]
              p == SourcePoint(top, x, y)
          IN IF top.alpha # Num(1)
             THEN [kind |-> "blend", alpha |-> top.alpha]
             ELSE IF top.src.kind = "image"
             THEN [kind |-> "image", id |-> top.src.id, x |-> p[1],
                   y |-> p[2]]
             ELSE PointShows(top.src.content, p[1], p[2])

\* The centres of the pixels of a w x h bitmap.
PixelCentres(w, h) ==
  {<<Frac(2 * px + 1, 2), Frac(2 * py + 1, 2)>> :
     px \in 0..(w - 1), py \in 0..(h - 1)}

\* C30: for each of the three algorithms the frame rendered at progress = 1
\* displays, at every pixel of the surface at its current size, what the
\* cover-fit draw of the to image displays there, also when the surface was
\* resized after init: no pixel of the from image remains.
C30_FinalFrameShowsToImage ==
  (calc.fn = "render" /\ calc.rendered /\ calc.args.progress = ProgressDen)
    => LET w == calc.main.width
           h == calc.main.height
           target == drawImageCoverFit(SetSize(CreateCanvas, w, h),
                                       calc.args.to, w, h).content
       IN \A p \in PixelCentres(w, h) :
            PointShows(calc.main.content, p[1], p[2])
              = PointShows(target, p[1], p[2])

C38_TransitionStartsFromDisplayed ==
  (lastOp.op = "tick" /\ lastOp.done) => lastOp.from = PlaybackPosition

\* C39: no transition starts before image loading has completed.  While the
\* loaded-image set is empty no scheduler interval is registered and the
\* Runner is Idle with no frame requested; and the step that completes
\* loading (the re-render that installs the loaded images and registers the
\* interval) leaves the Runner Idle with the image at the Playback Position
\* drawn statically at the size of the canvas, so that it is on the surface
\* before any transition starts.
C39_NoTransitionBeforeLoaded ==
  /\ [](loadedImages = {}
          => (~intervalActive /\ ~isTransitioningRef /\ rafQueue = {}
              /\ surface.kind # "frame"))
  /\ [][(loadedImages = {} /\ loadedImages' # {})
          => /\ ~isTransitioningRef'
             /\ rafQueue' = {}
             /\ surface'.kind = "static"
             /\ surface'.to = currentIndex'
             /\ currentIndex' = currentIndex
             /\ surface'.width = canvas'.width
             /\ surface'.height = canvas'.height]_vars

\* Loading of several images has just completed: the interval is registered,
\* the Runner is Idle and the image at a Playback Position other than the
\* first is on the surface.
C39_Witness ==
  /\ mounted
  /\ NumImages >= 2
  /\ loadedImages # {}
  /\ lastOp.op = "render"
  /\ intervalActive
  /\ ~isTransitioningRef
  /\ ~isTransitioning
  /\ rafQueue = {}
  /\ surface.kind = "static"
  /\ surface.to = currentIndex
  /\ currentIndex # 0

====
